---- MODULE Spec2Model ----
(***************************************************************************)
(* Model of the flashcard review / scheduling core of src/src/main.ts:     *)
(* the progress scheduler (buildNextProgress), the progress store with its *)
(* in-process cache and fire-and-forget writes, the review session         *)
(* (FlashcardView) and the flashcard manager (FlashcardManageView).        *)
(***************************************************************************)
EXTENDS Integers, Sequences, FiniteSets, TLC

\* ------------------------------------------------------------------ bounds
\* Number of grades (calls of buildNextProgress) one run may perform.
MaxGrades == 2
\* Number of cards the manager's Add handler may create in one run.
MaxNewCards == 3
\* Number of async handlers that may be pending at the same time (SpecConc).
MaxTasks == 2
\* Number of handlers one SpecConc run may start.
MaxOps == 5
\* Number of handlers one Spec run may start.
MaxClicks == 8
\* Largest streak / intervalDays / timestamp drawn for a scheduler input.
MaxPrev == 2
\* Number of un-awaited progress writes that may be in flight at once.
MaxLag == 1

\* ------------------------------------------------------------ optional values
\* A TypeScript optional field (x?: T) or a possibly-undefined value is a
\* tuple of length 0 (undefined) or 1 (the value).
None == << >>

Some(v) == << v >>

IsSome(o) == Len(o) = 1

Max(a, b) == IF a >= b THEN a ELSE b

\* ------------------------------------------------------------ CardProgress
\* interface CardProgress: streak, intervalDays, and the optional fields
\* lastReviewedAt, nextDueAt, done.  Timestamps are whole days.
CardProgress(s, d, dn, last, due) ==
    [streak |-> s, intervalDays |-> d, done |-> dn,
     lastReviewedAt |-> last, nextDueAt |-> due]

\* record[key] of a JS object used as a map: undefined when the key is absent
Lookup(m, k) == IF k \in DOMAIN m THEN Some(m[k]) ELSE None

\* `!this.progress[card.id]?.done` is false exactly when done is true
IsDone(m, k) == k \in DOMAIN m /\ m[k].done = Some(TRUE)

\* ------------------------------------------------------------ variables
VARIABLES
    \* --- scheduler harness (SpecSched): one progress entry graded repeatedly
    schedCur,       \* the entry: None or Some(CardProgress)
    schedPrev,      \* the `previous` argument of the last buildNextProgress call
    schedGrade,     \* the isGood argument of the last call: None or Some(BOOLEAN)
    schedCount,     \* number of calls so far
    \* --- document reader harness (SpecRead): one stored document read once
    rdKind,         \* which loader: "highlights", "cards" or "progress"
    rdRaw,          \* what is on storage at the document's path
    rdDoc,          \* None, or Some(outcome of readJson)
    rdOut,          \* None, or Some(outcome of the loader)
    \* --- highlight capture and flashcard generation
    hlFile,         \* the highlight file of the open PDF: None or Some(HighlightFile)
    genTasks,       \* the pending capture handlers and generate commands, by slot
    genStarted,     \* capture clicks and generate commands started so far
    hlNextId,       \* the next fresh highlight id
    hlSaved,        \* history: the highlights whose saveHighlight has returned
    hlMarked,       \* history: the ids passed to markHighlightsGenerated
    hlSeenGen,      \* history: the ids the file has held with flashcardGenerated
    genEvt,         \* history: the command that ended last (with the response,
                    \* when the command ended on it)
    \* --- one capture click on the toolbar of a PDF leaf (PdfLeafController)
    geoPages,       \* the bounding boxes of the mounted .page elements, in order
    geoSel,         \* None, or Some(the client rects of the selection clicked on)
    geoOut,         \* None, or Some(what buildHighlightFromSelection returned)
    geoNotice,      \* None, or Some(the notice the click showed)
    geoDrawn,       \* the boxes renderHighlights drew for the new highlight
    \* --- the export command on one PDF
    expIn,          \* the highlights loadHighlights returns for the PDF
    expFile,        \* the annotation note of the PDF: None or Some(its text)
    expFirst,       \* history: None, or Some(the text the first export wrote)
    expAgain,       \* the command has run a second time
    expEvt,         \* history: the export command that ended last
    \* --- one PdfLeafController and the viewer element of its leaf
    atViewer,       \* the mounted viewer element: 0 (none yet) or its identity
    atToolbar,      \* this.toolbar is set
    atSelHandler,   \* this.selectionHandlerAttached
    atObserver,     \* this.observer: 0 (undefined) or an observer
    atAttached,     \* this.attachedPdfViewer: 0 (undefined) or a viewer element
    atLive,         \* the observers that are observing, with their targets
    atRetry,        \* the pending timers of line 349
    atRenderTimer,  \* this.renderTimer: 0 (undefined) or a timer
    atRenders,      \* the pending timers of line 509
    atNext,         \* the next fresh observer, timer and chain
    atChains,       \* history, per chain of attempts: the retries scheduled and
                    \* the attempts that found the viewer
    atEvt,          \* history: the attempt made last
    \* --- storage (the vault adapter's files under the storage folder)
    cardsFile,      \* flashcards.json: None (absent) or Some(FlashcardFile)
    progressFile,   \* progress.json: None (absent) or Some(ProgressFile)
    inflight,       \* adapter.write calls issued and not yet completed
    \* --- PdfFlashcardsPlugin
    heap,           \* the ProgressFile objects alive in the process, by identity
    progressCache,  \* this.progressCache: NoObj (undefined) or an object of heap
    \* --- FlashcardView (the review session)
    viewCards,      \* this.cards
    viewIndex,      \* this.index
    showingAnswer,  \* this.showingAnswer
    viewProgress,   \* this.progress: an object of heap, or NoObj for the initial {}
    display,        \* what render() last drew
    \* --- FlashcardManageView
    mgrCards,       \* this.cards
    mgrRows,        \* the rows render() last drew: the (card, index) of each closure
    mgrOpened,      \* onOpen has been started
    \* --- the event loop
    tasks,          \* the pending async handlers, by slot
    clock,          \* new Date(): the day, one later at each grade
    nextId,         \* the next fresh card id (Date.now() + random suffix)
    opsStarted,     \* handlers started so far
    \* --- history, for stating the claims
    lastGrade,      \* per card id: the isGood of the last grade applied to it
    expected,       \* per card id: the value the last upsert put in the cache
    prevMem,        \* the in-memory progress map before the last update that changed it
    evt             \* what the last step completed

schedVars == << schedCur, schedPrev, schedGrade, schedCount >>

rdVars == << rdKind, rdRaw, rdDoc, rdOut >>

genVars == << hlFile, genTasks, genStarted, hlNextId, hlSaved, hlMarked, hlSeenGen, genEvt >>

\* the variables of the harnesses of pure functions and of the capture and
\* generation commands
geoVars == << geoPages, geoSel, geoOut, geoNotice, geoDrawn >>

expVars == << expIn, expFile, expFirst, expAgain, expEvt >>

attVars == << atViewer, atToolbar, atSelHandler, atObserver, atAttached, atLive, atRetry,
             atRenderTimer, atRenders, atNext, atChains, atEvt >>

pureVars == << schedVars, rdVars, genVars, geoVars, expVars, attVars >>

storeVars == << cardsFile, progressFile, inflight, heap, progressCache >>

viewVars == << viewCards, viewIndex, showingAnswer, viewProgress, display >>

mgrVars == << mgrCards, mgrRows, mgrOpened >>

loopVars == << tasks, clock, nextId, opsStarted >>

histVars == << lastGrade, expected, prevMem, evt >>

mainVars == << storeVars, viewVars, mgrVars, loopVars, histVars >>

vars == << pureVars, mainVars >>

\* what each harness leaves alone
schedRest == << mainVars, rdVars, genVars, geoVars, expVars, attVars >>

rdRest == << schedVars, mainVars, genVars, geoVars, expVars, attVars >>

\* ------------------------------------------------------------ Progress Scheduler
\* line 807: Math.max(1, current.intervalDays + current.streak), where
\* current.streak has already been incremented on line 806
GoodIntervalStale(intervalDays, newStreak) == Max(1, intervalDays + newStreak - 1)

GoodIntervalReset(intervalDays, newStreak) == Max(1, newStreak)

GoodInterval(intervalDays, newStreak) == Max(1, intervalDays + newStreak)

\* line 808: current.done = true
GoodDoneUnset(done) == done

GoodDoneFalse(done) == Some(FALSE)

GoodDone(done) == Some(TRUE)

\* lines 810-812: the again branch, applied to the copy of `previous`
AgainKeepInterval(current) == [current EXCEPT !.streak = 0, !.done = Some(FALSE)]

AgainBranch(current) ==
    [current EXCEPT !.streak = 0, !.intervalDays = 0, !.done = Some(FALSE)]

\* lines 805-808: the good branch
GoodBranch(current) ==
    LET streak1 == current.streak + 1
    IN  [current EXCEPT !.streak = streak1,
                        !.intervalDays = GoodInterval(current.intervalDays, streak1),
                        !.done = GoodDone(current.done)]

\* buildNextProgress(previous, isGood), with `now` (new Date(), in days) made
\* a parameter.  previous is None (undefined) or Some(CardProgress).
buildNextProgress(previous, isGood, now) ==
    LET current0 == IF IsSome(previous) THEN previous[1]
                    ELSE CardProgress(0, 0, None, None, None)
        current1 == IF isGood THEN GoodBranch(current0) ELSE AgainBranch(current0)
        nextDue  == now + (IF isGood THEN current1.intervalDays ELSE 0)
    IN  [current1 EXCEPT !.lastReviewedAt = Some(now), !.nextDueAt = Some(nextDue)]

\* ------------------------------------------------------------ documents
PROGRESS_VERSION == 1

FLASHCARD_VERSION == 1

\* interface Flashcard, reduced to the fields the handlers read or write: the
\* id and the question/answer text (one value for the pair).
Flashcard(id, text) == [id |-> id, text |-> text]

\* what the user can have typed into the question/answer boxes: the content
\* is one value; "" is a box left empty (after trim)
Texts == {"q"}

FlashcardFile(cards) == [version |-> FLASHCARD_VERSION, cards |-> cards]

ProgressFile(progress) == [version |-> PROGRESS_VERSION, progress |-> progress]

EmptyMap == << >>

Put(m, k, v) == [x \in (DOMAIN m) \cup {k} |-> IF x = k THEN v ELSE m[x]]

Delete(m, k) == [x \in (DOMAIN m) \ {k} |-> m[x]]

Restrict(m, S) == [x \in (DOMAIN m) \cap S |-> m[x]]

Ids(cards) == { cards[i].id : i \in 1..Len(cards) }

\* pruneProgress lines 866-868: delete every key that is not in ids
PruneKeysNone(progress, ids) == progress

PruneKeys(progress, ids) == Restrict(progress, ids)

\* readJson(path, fallback): the fallback when the file does not exist,
\* else Object.assign({}, fallback, JSON.parse(raw)); the stored documents
\* of this model always hold every field, so the parsed fields win.
readJson(file, fallback) == IF file = None THEN fallback ELSE file[1]

\* ------------------------------------------------------------ object identity
NoObj == 0

MaxObjs == MaxTasks + 3

ObjIds == 1..MaxObjs

\* the lowest identity no live object has
FreshObj(h) == CHOOSE i \in ObjIds : i \notin DOMAIN h /\ \A j \in 1..(i-1) : j \in DOMAIN h

Alloc(h, doc) == [x \in (DOMAIN h) \cup {FreshObj(h)} |-> IF x \in DOMAIN h THEN h[x] ELSE doc]

\* the progress record an object reference denotes
Deref(h, ref) == IF ref = NoObj THEN EmptyMap ELSE h[ref].progress

\* objects no reference reaches any more are collected
Collect(h, roots) == [x \in (DOMAIN h) \cap roots |-> h[x]]

\* ------------------------------------------------------------ Review Session
\* FlashcardView.remainingCards: this.cards.filter(c => !this.progress[c.id]?.done)
NotDoneFilterAbsentOnly(progress, card) == card.id \notin DOMAIN progress

NotDoneFilter(progress, card) == ~IsDone(progress, card.id)

remainingCards(cards, progress) ==
    SelectSeq(cards, LAMBDA card : NotDoneFilter(progress, card))

\* FlashcardView.currentCard: null (None) or remaining[this.index % remaining.length]
currentCard(cards, progress, index) ==
    LET remaining == remainingCards(cards, progress)
    IN  IF Len(remaining) = 0 THEN None
        ELSE Some(remaining[(index % Len(remaining)) + 1])

\* what the view's container shows: nothing before onOpen ("closed"), the
\* emptied container ("blank"), or one of the three screens of render()
Screen(s, c) == [screen |-> s, card |-> c]

\* FlashcardView.render
RenderFinishedWhenEmpty(cards, progress, index) ==
    LET card == currentCard(cards, progress, index)
    IN  IF card = None THEN Screen("finished", 0) ELSE Screen("card", card[1].id)

Render(cards, progress, index) ==
    LET card == currentCard(cards, progress, index)
    IN  IF card = None
        THEN IF Len(cards) = 0 THEN Screen("empty", 0) ELSE Screen("finished", 0)
        ELSE Screen("card", card[1].id)

\* handleGrade lines 149-154: the index after a grade
NextIndexKept(index, remaining) ==
    IF Len(remaining) > 0 THEN index % Len(remaining) ELSE 0

NextIndex(index, remaining) ==
    IF Len(remaining) > 0 THEN (index + 1) % Len(remaining) ELSE 0

\* ------------------------------------------------------------ the event loop
Slots == 1..MaxTasks

\* a slot with no pending handler.  A pending handler is at an await of a
\* vault-adapter call: h is the handler, op the plugin method it is in, pc
\* the adapter call awaited ("ensure": ensureStorageFolder's exists probe,
\* "exists"/"read": readJson's two calls, "write": writeJson's write), and
\* the rest the locals that live across the await.  `along` is history: the
\* cards of the handleGrade calls that were pending when this one was called.
IdleTask ==
    [h |-> "idle", op |-> "", pc |-> "", card |-> 0, isGood |-> FALSE,
     data |-> NoObj, ids |-> {}, remBefore |-> << >>, prior |-> EmptyMap,
     gone |-> {}, along |-> {}]

\* the slots of the pending handleGrade calls
Grading(tks) == { t \in Slots : tks[t].h = "grade" }

Idle(t) == tasks[t].h = "idle"

FreeSlot == CHOOSE t \in Slots : Idle(t) /\ \A u \in 1..(t-1) : ~Idle(u)

\* A handler starts on a user action.  In Spec the user acts only when no
\* handler is pending, at most MaxClicks times; in SpecConc a click may come
\* while others are pending, at most MaxOps times.
CanStart(conc) ==
    IF conc THEN opsStarted < MaxOps /\ \E t \in Slots : Idle(t)
    ELSE opsStarted < MaxClicks /\ \A t \in Slots : Idle(t)

Started(conc) == opsStarted' = opsStarted + 1

Spawn(task) == tasks' = [tasks EXCEPT ![FreeSlot] = task]

Roots(cache, view, tks) == ({cache, view} \cup { tks[t].data : t \in Slots }) \ {NoObj}

NoEvt ==
    [kind |-> "none", card |-> 0, isGood |-> FALSE, remBefore |-> << >>,
     idxBefore |-> 0, loaded |-> None, prior |-> EmptyMap, cards |-> << >>,
     gone |-> {}, along |-> {}]

\* the progress map the process sees: the cache when populated, else the file
CurrentProgress ==
    IF progressCache # NoObj THEN heap[progressCache].progress
    ELSE readJson(progressFile, ProgressFile(EmptyMap)).progress

\* history: the in-memory map to remember when an update makes it `after`
Before(after) == IF after # CurrentProgress THEN CurrentProgress ELSE prevMem

InitMain ==
    /\ cardsFile = None
    /\ progressFile = None
    /\ inflight = {}
    /\ heap = << >>
    /\ progressCache = NoObj
    /\ viewCards = << >>
    /\ viewIndex = 0
    /\ showingAnswer = FALSE
    /\ viewProgress = NoObj
    /\ display = Screen("closed", 0)
    /\ mgrCards = << >>
    /\ mgrRows = None
    /\ mgrOpened = FALSE
    /\ tasks = [t \in Slots |-> IdleTask]
    /\ clock = 0
    /\ nextId = 1
    /\ opsStarted = 0
    /\ lastGrade = EmptyMap
    /\ expected = EmptyMap
    /\ prevMem = EmptyMap
    /\ evt = NoEvt

\* ------------------------------------------------------------ user actions
\* FlashcardView.onOpen: empties the container and awaits reload(), whose
\* first await is loadAllCards' ensureStorageFolder/readJson
SessionOpen(conc) ==
    /\ CanStart(conc)
    /\ display.screen = "closed"
    /\ display' = Screen("blank", 0)
    /\ Spawn([IdleTask EXCEPT !.h = "open", !.op = "loadAllCards", !.pc = "exists"])
    /\ Started(conc)
    /\ evt' = NoEvt
    /\ UNCHANGED << pureVars, storeVars, viewCards, viewIndex, showingAnswer,
                    viewProgress, mgrVars, clock, nextId, lastGrade, expected, prevMem >>

\* the Again / Good buttons: handleGrade(isGood) up to its first await
\* (updateProgressOptimistic's ensureStorageFolder)
ClickGrade(conc) ==
    /\ CanStart(conc)
    /\ display.screen = "card"
    /\ clock + Cardinality({ t \in Slots : tasks[t].op = "upsert" }) < MaxGrades
    /\ Cardinality({ w \in inflight : w.owner = 0 })
         + Cardinality({ t \in Slots : tasks[t].op = "upsert" }) < MaxLag
    /\ \E isGood \in BOOLEAN :
        LET progress == Deref(heap, viewProgress)
            card == currentCard(viewCards, progress, viewIndex)
            remaining == remainingCards(viewCards, progress)
        IN  IF card = None
            THEN UNCHANGED << tasks, opsStarted, evt >>
            ELSE /\ Spawn([IdleTask EXCEPT !.h = "grade", !.op = "upsert",
                                           !.pc = "ensure", !.card = card[1].id,
                                           !.isGood = isGood,
                                           !.remBefore = remaining,
                                           !.prior = progress,
                                           !.along = { tasks[u].card :
                                                         u \in Grading(tasks) }])
                 /\ Started(conc)
                 /\ evt' = NoEvt
    /\ UNCHANGED << pureVars, storeVars, viewVars, mgrVars, clock, nextId,
                    lastGrade, expected, prevMem >>

\* the click listener of the card element (lines 189-192)
ToggleRevealAdvancing(conc) ==
    /\ conc \/ \A t \in Slots : Idle(t)
    /\ display.screen = "card"
    /\ showingAnswer' = ~showingAnswer
    /\ viewIndex' = viewIndex + 1
    /\ display' = Render(viewCards, Deref(heap, viewProgress), viewIndex')
    /\ evt' = [NoEvt EXCEPT !.kind = "toggled"]
    /\ UNCHANGED << pureVars, storeVars, viewCards, viewProgress,
                    mgrVars, loopVars, lastGrade, expected, prevMem >>

ToggleReveal(conc) ==
    /\ conc \/ \A t \in Slots : Idle(t)
    /\ display.screen = "card"
    /\ showingAnswer' = ~showingAnswer
    /\ display' = Render(viewCards, Deref(heap, viewProgress), viewIndex)
    /\ evt' = [NoEvt EXCEPT !.kind = "toggled"]
    /\ UNCHANGED << pureVars, storeVars, viewCards, viewIndex, viewProgress,
                    mgrVars, loopVars, lastGrade, expected, prevMem >>

\* the Restart button (lines 180-184) up to resetProgress' first await
ClickRestart(conc) ==
    /\ CanStart(conc)
    /\ display.screen = "finished"
    /\ Spawn([IdleTask EXCEPT !.h = "restart", !.op = "reset", !.pc = "ensure"])
    /\ Started(conc)
    /\ evt' = NoEvt
    /\ UNCHANGED << pureVars, storeVars, viewVars, mgrVars, clock, nextId,
                    lastGrade, expected, prevMem >>

\* FlashcardManageView.onOpen
MgrOpen(conc) ==
    /\ CanStart(conc)
    /\ ~mgrOpened
    /\ mgrOpened' = TRUE
    /\ Spawn([IdleTask EXCEPT !.h = "mopen", !.op = "loadAllCards", !.pc = "exists"])
    /\ Started(conc)
    /\ evt' = NoEvt
    /\ UNCHANGED << pureVars, storeVars, viewVars, mgrCards, mgrRows, clock,
                    nextId, lastGrade, expected, prevMem >>

\* the Add button (lines 255-275) up to replaceAllCards' first await
MgrAdd(conc) ==
    /\ CanStart(conc)
    /\ mgrRows # None
    /\ nextId <= MaxNewCards
    /\ \E typed \in Texts \cup {""} :
        IF typed = ""
        THEN UNCHANGED << mgrCards, nextId, tasks, opsStarted, evt >>
        ELSE /\ mgrCards' = << Flashcard(nextId, typed) >> \o mgrCards
             /\ nextId' = nextId + 1
             /\ Spawn([IdleTask EXCEPT !.h = "add", !.op = "replace", !.pc = "ensure",
                                       !.prior = CurrentProgress])
             /\ Started(conc)
             /\ evt' = NoEvt
    /\ UNCHANGED << pureVars, storeVars, viewVars, mgrRows, mgrOpened, clock,
                    lastGrade, expected, prevMem >>

\* this.cards[index] = value: past the end the array grows, the slots between
\* staying empty
Hole == Flashcard(0, "")

SetAt(cards, i, value) ==
    [k \in 1..Max(Len(cards), i) |->
        IF k = i THEN value ELSE IF k <= Len(cards) THEN cards[k] ELSE Hole]

\* this.cards.splice(index, 1)
Splice(cards, i) ==
    IF i > Len(cards) THEN cards
    ELSE SubSeq(cards, 1, i - 1) \o SubSeq(cards, i + 1, Len(cards))

\* a row's Save button (lines 294-300)
MgrSave(conc) ==
    /\ CanStart(conc)
    /\ mgrRows # None
    /\ \E i \in 1..Len(mgrRows[1]), typed \in Texts \cup {""} :
        IF typed = ""
        THEN UNCHANGED << mgrCards, tasks, opsStarted, evt >>
        ELSE /\ mgrCards' = SetAt(mgrCards, i, [mgrRows[1][i] EXCEPT !.text = typed])
             /\ Spawn([IdleTask EXCEPT !.h = "save", !.op = "replace", !.pc = "ensure",
                                       !.prior = CurrentProgress])
             /\ Started(conc)
             /\ evt' = NoEvt
    /\ UNCHANGED << pureVars, storeVars, viewVars, mgrRows, mgrOpened, clock,
                    nextId, lastGrade, expected, prevMem >>

\* a row's Delete button (lines 302-307)
MgrDelete(conc) ==
    /\ CanStart(conc)
    /\ mgrRows # None
    /\ \E i \in 1..Len(mgrRows[1]) :
        /\ mgrCards' = Splice(mgrCards, i)
        /\ Spawn([IdleTask EXCEPT !.h = "delete", !.op = "replace", !.pc = "ensure",
                                  !.card = mgrRows[1][i].id,
                                  !.prior = CurrentProgress,
                                  !.gone = Ids(mgrCards) \ Ids(Splice(mgrCards, i))])
    /\ Started(conc)
    /\ evt' = NoEvt
    /\ UNCHANGED << pureVars, storeVars, viewVars, mgrRows, mgrOpened, clock,
                    nextId, lastGrade, expected, prevMem >>

\* ------------------------------------------------------------ continuations
\* A plugin method that returns resumes its caller in the same turn of the
\* event loop; the caller runs on to its next adapter call.  Each operator
\* below is such a resumption: it sets the view, the manager, the task and the
\* collected heap, given the heap h2 and cache c2 the method leaves.

\* loadAllCards returned `cards` to reload() (FlashcardView lines 123-124, or
\* FlashcardManageView lines 233-235 followed by render())
LoadedCards(t, cards) ==
    IF tasks[t].h = "mopen"
    THEN /\ mgrCards' = cards
         /\ mgrRows' = Some(cards)
         /\ tasks' = [tasks EXCEPT ![t] = IdleTask]
         /\ evt' = [NoEvt EXCEPT !.kind = "mopened"]
         /\ UNCHANGED << viewVars, mgrOpened >>
    ELSE /\ viewCards' = cards
         /\ tasks' = [tasks EXCEPT ![t].op = "loadProgress", ![t].pc = "ensure"]
         /\ evt' = NoEvt
         /\ UNCHANGED << viewIndex, showingAnswer, viewProgress, display, mgrVars >>

\* loadProgress returned the progress record of object ref, which is the
\* cache: the rest of reload() and render() (lines 124-126, 119/183), or of
\* handleGrade (148-156).  When no other reference is left the object takes
\* the first identity.
LoadedProgress(t, h2, ref) ==
    LET progress == h2[ref].progress
        remaining == remainingCards(viewCards, progress)
        index == IF tasks[t].h = "grade" THEN NextIndex(viewIndex, remaining) ELSE 0
        tasks2 == [tasks EXCEPT ![t] = IdleTask]
        alone == \A u \in Slots : tasks2[u].data = NoObj
        ref2 == IF alone THEN 1 ELSE ref
    IN  /\ progressCache' = ref2
        /\ viewProgress' = ref2
        /\ viewIndex' = index
        /\ showingAnswer' = FALSE
        /\ display' = Render(viewCards, progress, index)
        /\ tasks' = tasks2
        /\ evt' = [NoEvt EXCEPT
                     !.kind = IF tasks[t].h = "grade" THEN "graded"
                              ELSE IF tasks[t].h = "open" THEN "opened" ELSE "restarted",
                     !.card = tasks[t].card,
                     !.isGood = tasks[t].isGood,
                     !.remBefore = tasks[t].remBefore,
                     !.idxBefore = viewIndex,
                     !.prior = tasks[t].prior,
                     !.along = tasks[t].along,
                     !.loaded = Some(progress)]
        /\ heap' = IF alone THEN [x \in {1} |-> h2[ref]]
                   ELSE Collect(h2, Roots(ref, ref, tasks2))
        /\ UNCHANGED << viewCards, mgrVars >>

\* replaceAllCards returned to the manager's handler: Add goes on to render(),
\* Save ends, Delete goes on to removeProgress(card.id)
Replaced(t, h2, c2) ==
    /\ IF tasks[t].h = "delete"
       THEN tasks' = [tasks EXCEPT ![t].op = "remove", ![t].pc = "ensure",
                                   ![t].data = NoObj, ![t].ids = {}]
       ELSE tasks' = [tasks EXCEPT ![t] = IdleTask]
    /\ mgrRows' = IF tasks[t].h = "add" THEN Some(mgrCards) ELSE mgrRows
    /\ evt' = [NoEvt EXCEPT !.kind = "replaced", !.prior = tasks[t].prior,
                            !.cards = mgrCards]
    /\ heap' = Collect(h2, Roots(c2, viewProgress, tasks'))
    /\ UNCHANGED << viewVars, mgrCards, mgrOpened >>

\* ------------------------------------------------------------ storage
Write(file, doc, owner) == [file |-> file, doc |-> doc, owner |-> owner]

\* the adapter.write task t awaits
OwnWrite(t) == CHOOSE w \in inflight : w.owner = t

\* an adapter.write replaces the whole file
Store(w) ==
    IF w.file = "cards"
    THEN cardsFile' = Some(w.doc) /\ UNCHANGED progressFile
    ELSE progressFile' = Some(w.doc) /\ UNCHANGED cardsFile

\* An adapter.write nobody awaits (line 789) completes.  The code orders it
\* with no other write, so it may complete before or after any of them.
WriteLands ==
    /\ \E w \in inflight :
        /\ w.owner = 0
        /\ inflight' = inflight \ {w}
        /\ Store(w)
    /\ evt' = NoEvt
    /\ UNCHANGED << pureVars, heap, progressCache, viewVars, mgrVars, loopVars,
                    lastGrade, expected, prevMem >>

\* ------------------------------------------------------------ plugin methods
\* Each action is one resumption of task t inside the named method: from the
\* completion of the adapter call it awaits to the next adapter call.  An
\* awaited adapter.write takes effect when the task resumes from it.

\* loadAllCards (lines 743-751): readJson's exists probe, then its read
loadAllCards(t) ==
    /\ tasks[t].op = "loadAllCards"
    /\ IF tasks[t].pc = "exists" /\ cardsFile # None
       THEN /\ tasks' = [tasks EXCEPT ![t].pc = "read"]
            /\ evt' = NoEvt
            /\ UNCHANGED << viewVars, mgrVars >>
       ELSE LoadedCards(t, readJson(cardsFile, FlashcardFile(<< >>)).cards)
    /\ UNCHANGED << pureVars, storeVars, clock, nextId, opsStarted, lastGrade,
                    expected, prevMem >>

\* loadProgress (lines 823-833)
loadProgress(t) ==
    /\ tasks[t].op = "loadProgress"
    /\ IF tasks[t].pc = "ensure" /\ progressCache # NoObj
       THEN \* line 826: the cache is populated
            LoadedProgress(t, heap, progressCache)
       ELSE IF tasks[t].pc = "ensure" \/ (tasks[t].pc = "exists" /\ progressFile # None)
       THEN \* readJson: on to the exists probe, or from it on to the read
            /\ tasks' = [tasks EXCEPT ![t].pc = IF @ = "ensure" THEN "exists" ELSE "read"]
            /\ evt' = NoEvt
            /\ UNCHANGED << heap, progressCache, viewVars, mgrVars >>
       ELSE \* line 827: this.progressCache = the document readJson built
            LoadedProgress(t, Alloc(heap, readJson(progressFile, ProgressFile(EmptyMap))),
                           FreshObj(heap))
    /\ UNCHANGED << pureVars, cardsFile, progressFile, inflight, clock, nextId,
                    opsStarted, lastGrade, expected, prevMem >>

\* updateProgressOptimistic lines 786-790 on the document `ref` of heap h,
\* then handleGrade's call of loadProgress up to its first await
UpsertBody(t, h, ref) ==
    LET cardId == tasks[t].card
        current == buildNextProgress(Lookup(h[ref].progress, cardId),
                                     tasks[t].isGood, clock)
        h2 == [h EXCEPT ![ref].progress = Put(@, cardId, current)]
    IN  /\ progressCache' = ref
        /\ inflight' = inflight \cup {Write("progress", h2[ref], 0)}
        /\ clock' = clock + 1
        /\ lastGrade' = Put(lastGrade, cardId, tasks[t].isGood)
        /\ expected' = Put(expected, cardId, current)
        /\ prevMem' = Before(h2[ref].progress)
        /\ tasks' = [tasks EXCEPT ![t].op = "loadProgress", ![t].pc = "ensure"]
        /\ heap' = Collect(h2, Roots(ref, viewProgress, tasks'))

\* updateProgressOptimistic (lines 776-791)
updateProgressOptimistic(t) ==
    /\ tasks[t].op = "upsert"
    /\ IF tasks[t].pc = "ensure" /\ progressCache # NoObj
       THEN UpsertBody(t, heap, progressCache)
       ELSE IF tasks[t].pc = "ensure" \/ (tasks[t].pc = "exists" /\ progressFile # None)
       THEN /\ tasks' = [tasks EXCEPT ![t].pc = IF @ = "ensure" THEN "exists" ELSE "read"]
            /\ UNCHANGED << heap, progressCache, inflight, clock, lastGrade, expected, prevMem >>
       ELSE UpsertBody(t, Alloc(heap, readJson(progressFile, ProgressFile(EmptyMap))),
                       FreshObj(heap))
    /\ evt' = NoEvt
    /\ UNCHANGED << pureVars, cardsFile, progressFile, viewVars, mgrVars, nextId,
                    opsStarted >>

\* resetProgress (lines 835-841), then the Restart handler's reload()
resetProgress(t) ==
    /\ tasks[t].op = "reset"
    /\ IF tasks[t].pc = "ensure"
       THEN \* lines 838-839: a new empty document, written and awaited
            /\ heap' = Alloc(heap, ProgressFile(EmptyMap))
            /\ inflight' = inflight \cup {Write("progress", ProgressFile(EmptyMap), t)}
            /\ tasks' = [tasks EXCEPT ![t].pc = "write", ![t].data = FreshObj(heap)]
            /\ UNCHANGED << cardsFile, progressFile, progressCache, expected, prevMem >>
       ELSE \* the write completes; line 840: this.progressCache = data
            /\ Store(OwnWrite(t))
            /\ inflight' = inflight \ {OwnWrite(t)}
            /\ progressCache' = tasks[t].data
            /\ expected' = EmptyMap
            /\ prevMem' = Before(EmptyMap)
            /\ tasks' = [tasks EXCEPT ![t].op = "loadAllCards", ![t].pc = "exists",
                                      ![t].data = NoObj]
            /\ heap' = Collect(heap, Roots(tasks[t].data, viewProgress, tasks'))
    /\ evt' = NoEvt
    /\ UNCHANGED << pureVars, viewVars, mgrVars, clock, nextId, opsStarted,
                    lastGrade >>

\* removeProgress lines 852-853 on the document `ref` of heap h
RemoveBody(t, h, ref) ==
    LET h2 == [h EXCEPT ![ref].progress = Delete(@, tasks[t].card)]
    IN  /\ inflight' = inflight \cup {Write("progress", h2[ref], t)}
        /\ expected' = Delete(expected, tasks[t].card)
        /\ prevMem' = Before(h2[ref].progress)
        /\ tasks' = [tasks EXCEPT ![t].pc = "write", ![t].data = ref]
        /\ heap' = h2

\* removeProgress (lines 843-855), then the Delete handler's render()
removeProgress(t) ==
    /\ tasks[t].op = "remove"
    /\ IF tasks[t].pc = "write"
       THEN \* the write completes; line 854: this.progressCache = data
            /\ Store(OwnWrite(t))
            /\ inflight' = inflight \ {OwnWrite(t)}
            /\ progressCache' = tasks[t].data
            /\ tasks' = [tasks EXCEPT ![t] = IdleTask]
            /\ mgrRows' = Some(mgrCards)
            /\ evt' = [NoEvt EXCEPT !.kind = "deleted", !.card = tasks[t].card,
                                    !.prior = tasks[t].prior,
                                    !.gone = tasks[t].gone]
            /\ heap' = Collect(heap, Roots(tasks[t].data, viewProgress, tasks'))
            /\ UNCHANGED << expected, prevMem >>
       ELSE /\ IF tasks[t].pc = "ensure" /\ progressCache # NoObj
               THEN RemoveBody(t, heap, progressCache)
               ELSE IF tasks[t].pc = "ensure"
                       \/ (tasks[t].pc = "exists" /\ progressFile # None)
               THEN /\ tasks' = [tasks EXCEPT
                                   ![t].pc = IF @ = "ensure" THEN "exists" ELSE "read"]
                    /\ UNCHANGED << heap, inflight, expected, prevMem >>
               ELSE RemoveBody(t, Alloc(heap, readJson(progressFile,
                                                        ProgressFile(EmptyMap))),
                               FreshObj(heap))
            /\ evt' = NoEvt
            /\ UNCHANGED << cardsFile, progressFile, progressCache, mgrRows >>
    /\ UNCHANGED << pureVars, viewVars, mgrCards, mgrOpened, clock, nextId,
                    opsStarted, lastGrade >>

\* pruneProgress lines 866-869 on the document `ref` of heap h, with the id
\* set of line 858; `pending` are the other writes in flight
PruneBody(t, h, ref, ids, pending) ==
    LET h2 == [h EXCEPT ![ref].progress = PruneKeys(@, ids)]
    IN  /\ inflight' = pending \cup {Write("progress", h2[ref], t)}
        /\ expected' = Restrict(expected, ids)
        /\ prevMem' = Before(h2[ref].progress)
        /\ tasks' = [tasks EXCEPT ![t].op = "prune", ![t].pc = "write",
                                  ![t].data = ref, ![t].ids = ids]
        /\ heap' = h2

\* replaceAllCards (lines 764-770) up to pruneProgress' first await.  `cards`
\* is the manager's this.cards array itself, read when it is used.
replaceAllCards(t) ==
    /\ tasks[t].op = "replace"
    /\ IF tasks[t].pc = "ensure"
       THEN \* lines 767-768: the whole card list, written and awaited
            /\ inflight' = inflight \cup {Write("cards", FlashcardFile(mgrCards), t)}
            /\ tasks' = [tasks EXCEPT ![t].pc = "write"]
            /\ UNCHANGED << cardsFile, progressFile, heap, expected, prevMem >>
       ELSE \* the write completes; line 769 and pruneProgress lines 858-865
            /\ Store(OwnWrite(t))
            /\ IF progressCache # NoObj
               THEN PruneBody(t, heap, progressCache, Ids(mgrCards),
                              inflight \ {OwnWrite(t)})
               ELSE /\ tasks' = [tasks EXCEPT ![t].op = "prune", ![t].pc = "exists",
                                              ![t].ids = Ids(mgrCards)]
                    /\ inflight' = inflight \ {OwnWrite(t)}
                    /\ UNCHANGED << heap, expected, prevMem >>
    /\ evt' = NoEvt
    /\ UNCHANGED << pureVars, progressCache, viewVars, mgrVars, clock, nextId,
                    opsStarted, lastGrade >>

\* pruneProgress (lines 857-871) from readJson on, then replaceAllCards' return
pruneProgress(t) ==
    /\ tasks[t].op = "prune"
    /\ IF tasks[t].pc = "write"
       THEN \* the write completes; line 870: this.progressCache = data
            /\ Store(OwnWrite(t))
            /\ inflight' = inflight \ {OwnWrite(t)}
            /\ progressCache' = tasks[t].data
            /\ Replaced(t, heap, tasks[t].data)
            /\ UNCHANGED << expected, prevMem >>
       ELSE /\ IF tasks[t].pc = "exists" /\ progressFile # None
               THEN /\ tasks' = [tasks EXCEPT ![t].pc = "read"]
                    /\ UNCHANGED << heap, inflight, expected, prevMem >>
               ELSE PruneBody(t, Alloc(heap, readJson(progressFile,
                                                       ProgressFile(EmptyMap))),
                              FreshObj(heap), tasks[t].ids, inflight)
            /\ evt' = NoEvt
            /\ UNCHANGED << cardsFile, progressFile, progressCache, viewVars, mgrVars >>
    /\ UNCHANGED << pureVars, clock, nextId, opsStarted, lastGrade >>

\* ------------------------------------------------------------ specifications
Steps ==
    \/ WriteLands
    \/ \E t \in Slots : loadAllCards(t)
    \/ \E t \in Slots : loadProgress(t)
    \/ \E t \in Slots : updateProgressOptimistic(t)
    \/ \E t \in Slots : resetProgress(t)
    \/ \E t \in Slots : removeProgress(t)
    \/ \E t \in Slots : replaceAllCards(t)
    \/ \E t \in Slots : pruneProgress(t)

\* the user acts only when no handler is pending
Next ==
    \/ SessionOpen(FALSE)
    \/ ClickGrade(FALSE)
    \/ ToggleReveal(FALSE)
    \/ ClickRestart(FALSE)
    \/ MgrOpen(FALSE)
    \/ MgrAdd(FALSE)
    \/ MgrSave(FALSE)
    \/ MgrDelete(FALSE)
    \/ Steps

\* ------------------------------------------------------------ highlights
HIGHLIGHT_VERSION == 1

\* interface Highlight (lines 31-39), reduced to the fields saveHighlight,
\* markHighlightsGenerated and the generate command read or write; text,
\* createdAt and pages are fixed by the id.  flashcardGenerated is None
\* while the field is absent.
Highlight(id, color) ==
    [id |-> id, color |-> color, isFlashcard |-> (color = "flashcard"),
     flashcardGenerated |-> None]

\* the toolbar buttons a capture click can come from (lines 385-390), one
\* plain colour standing for yellow, green and blue
CaptureColors == {"yellow", "flashcard"}

HighlightFile(highlights) ==
    [version |-> HIGHLIGHT_VERSION, sourcePath |-> "pdf", highlights |-> highlights]

\* a generated Flashcard (lines 957-964): a Flashcard with its highlightIds
GeneratedCard(id, highlightIds) ==
    [id |-> id, text |-> "q", highlightIds |-> highlightIds]

IdleGenTask ==
    [op |-> "none", pc |-> "idle", hl |-> None, inputs |-> << >>, doc |-> None,
     newCards |-> << >>, resp |-> None, usable |-> 0, writes |-> 0,
     cards0 |-> None, hl0 |-> None]

NoGenEvt ==
    [kind |-> "none", notices |-> << >>, resp |-> None, usable |-> 0,
     inputs |-> << >>, writes |-> 0, cards0 |-> None, hl0 |-> None,
     cards1 |-> None, hl1 |-> None]

GenIdle ==
    /\ hlFile = None
    /\ genTasks = [t \in Slots |-> IdleGenTask]
    /\ genStarted = 0
    /\ hlNextId = 1
    /\ hlSaved = {}
    /\ hlMarked = {}
    /\ hlSeenGen = {}
    /\ genEvt = NoGenEvt

GeoIdle ==
    /\ geoPages = << >>
    /\ geoSel = None
    /\ geoOut = None
    /\ geoNotice = None
    /\ geoDrawn = << >>

\* no ensureAttached has run
NoAttEvt == [kind |-> "none", chain |-> 0, retries |-> 0, found |-> FALSE]

\* a PdfLeafController as constructed (lines 315-325), its leaf without a
\* viewer element yet
AttIdle ==
    /\ atViewer = 0
    /\ atToolbar = FALSE
    /\ atSelHandler = FALSE
    /\ atObserver = 0
    /\ atAttached = 0
    /\ atLive = {}
    /\ atRetry = {}
    /\ atRenderTimer = 0
    /\ atRenders = {}
    /\ atNext = [observer |-> 1, timer |-> 1, chain |-> 1]
    /\ atChains = << >>
    /\ atEvt = NoAttEvt

\* no export command has ended
NoExpEvt == [kind |-> "none", hasFile |-> FALSE, notices |-> << >>, note0 |-> None]

ExpIdle ==
    /\ expIn = << >>
    /\ expFile = None
    /\ expFirst = None
    /\ expAgain = FALSE
    /\ expEvt = NoExpEvt

\* the harnesses at rest
SchedIdle ==
    /\ schedCur = None
    /\ schedPrev = None
    /\ schedGrade = None
    /\ schedCount = 0

RdIdle ==
    /\ rdKind = "progress"
    /\ rdRaw = None
    /\ rdDoc = None
    /\ rdOut = None

Init ==
    /\ InitMain
    /\ SchedIdle
    /\ RdIdle
    /\ GenIdle
    /\ GeoIdle
    /\ ExpIdle
    /\ AttIdle

Spec == Init /\ [][Next]_vars

\* a user action may come while earlier handlers are pending
NextConc ==
    \/ SessionOpen(TRUE)
    \/ ClickGrade(TRUE)
    \/ ToggleReveal(TRUE)
    \/ ClickRestart(TRUE)
    \/ MgrOpen(TRUE)
    \/ MgrAdd(TRUE)
    \/ MgrSave(TRUE)
    \/ MgrDelete(TRUE)
    \/ Steps

SpecConc == Init /\ [][NextConc]_vars

\* ------------------------------------------------------------ SpecSched
\* The scheduler applied repeatedly to one entry, from every stored entry a
\* progress document can hold (streak, intervalDays >= 0, optional fields
\* present or not) and from the absent entry.
SchedInputs ==
    {None} \cup
    { Some(CardProgress(s, d, dn, ts, ts)) :
        s \in 0..MaxPrev, d \in 0..MaxPrev,
        dn \in {None, Some(TRUE), Some(FALSE)},
        ts \in {None, Some(0)} }

InitSched ==
    /\ InitMain
    /\ schedCur \in SchedInputs
    /\ schedPrev = None
    /\ schedGrade = None
    /\ schedCount = 0
    /\ RdIdle
    /\ GenIdle
    /\ GeoIdle
    /\ ExpIdle
    /\ AttIdle

SchedGrade ==
    /\ schedCount < MaxGrades
    /\ \E isGood \in BOOLEAN, now \in 0..MaxPrev :
        /\ schedCur' = Some(buildNextProgress(schedCur, isGood, now))
        /\ schedPrev' = schedCur
        /\ schedGrade' = Some(isGood)
    /\ schedCount' = schedCount + 1
    /\ UNCHANGED schedRest

\* removeProgress line 852 on the entry: delete data.progress[cardId]
SchedRemove ==
    /\ schedCount < MaxGrades
    /\ schedCur # None
    /\ schedCur' = None
    /\ schedPrev' = schedCur
    /\ schedGrade' = None
    /\ schedCount' = schedCount + 1
    /\ UNCHANGED schedRest

NextSched == SchedGrade \/ SchedRemove

SpecSched == InitSched /\ [][NextSched]_vars

\* ------------------------------------------------------------ properties
\* the session's view of the progress map, its remaining() and its current()
SessionProgress == Deref(heap, viewProgress)

SessionRemaining == remainingCards(viewCards, SessionProgress)

SessionCurrent == currentCard(viewCards, SessionProgress, viewIndex)

\* no handler of the review session is pending: the view is as last rendered
SessionSettled == \A t \in Slots : tasks[t].h \notin {"open", "grade", "restart"}

\* C1: in a session over cards [A,B,C] with no progress (so remaining() is
\* [A,B,C]), after grading A as good, A is done, remaining() is [B,C] and
\* current() is B.
C1_GradeFirstOfThree ==
    (/\ evt.kind = "graded"
     /\ evt.isGood
     /\ evt.prior = EmptyMap
     /\ Len(viewCards) = 3
     /\ evt.remBefore = viewCards
     /\ evt.idxBefore = 0
     /\ evt.card = viewCards[1].id)
    => /\ IsDone(SessionProgress, viewCards[1].id)
       /\ SessionRemaining = << viewCards[2], viewCards[3] >>
       /\ SessionCurrent = Some(viewCards[2])

\* C2: once updateProgressOptimistic has put a card's new value in the cache,
\* every later loadProgress returns a map holding that value, until a later
\* operation on that card or a reset changes it, whatever the interleaving
\* of the pending progress operations.
C2_ReadYourWrites ==
    IsSome(evt.loaded) =>
        \A c \in DOMAIN expected :
            c \in DOMAIN evt.loaded[1] /\ evt.loaded[1][c] = expected[c]

\* the streak and intervalDays of the `previous` argument, 0 when it is absent
PrevStreak == IF IsSome(schedPrev) THEN schedPrev[1].streak ELSE 0

PrevInterval == IF IsSome(schedPrev) THEN schedPrev[1].intervalDays ELSE 0

\* C3: a good grade on a previous progress with streak s and intervalDays d
\* (absent: s = 0, d = 0) gives streak s+1, intervalDays max(1, d+s+1) and
\* done = true; so none -> {1, 1, done} and {1, 1} -> {2, 3, done}.
C3_GoodGrade ==
    schedGrade = Some(TRUE) =>
        /\ schedCur[1].streak = PrevStreak + 1
        /\ schedCur[1].intervalDays =
             (IF PrevInterval + PrevStreak + 1 >= 1 THEN PrevInterval + PrevStreak + 1
              ELSE 1)
        /\ schedCur[1].done = Some(TRUE)
        /\ schedPrev = None =>
             schedCur[1].streak = 1 /\ schedCur[1].intervalDays = 1
        /\ (PrevStreak = 1 /\ PrevInterval = 1) =>
             schedCur[1].streak = 2 /\ schedCur[1].intervalDays = 3

C3_Witness ==
    /\ schedGrade = Some(TRUE)
    /\ IsSome(schedPrev)
    /\ schedPrev[1].streak = 1
    /\ schedPrev[1].intervalDays = 1
    /\ schedCur[1].streak = 2
    /\ schedCur[1].intervalDays = 3
    /\ schedCur[1].done = Some(TRUE)

\* C4: an again grade gives streak 0, intervalDays 0 and done = false for
\* every previous progress, the absent one included.
C4_AgainGrade ==
    schedGrade = Some(FALSE) =>
        /\ schedCur[1].streak = 0
        /\ schedCur[1].intervalDays = 0
        /\ schedCur[1].done = Some(FALSE)

C4_Witness ==
    /\ schedGrade = Some(FALSE)
    /\ IsSome(schedPrev)
    /\ schedPrev[1].streak > 0
    /\ schedPrev[1].intervalDays > 0
    /\ schedPrev[1].done = Some(TRUE)
    /\ schedCur[1].intervalDays = 0

\* C5: after any sequence of grades interleaved with resetProgress,
\* removeProgress and replaceAllCards, every entry present in the progress
\* map (the map loadProgress returns) has done = true exactly when the most
\* recent grade applied to that card id was good.
C5_DoneIffLastGood ==
    \A c \in DOMAIN CurrentProgress :
        /\ c \in DOMAIN lastGrade
        /\ (CurrentProgress[c].done = Some(TRUE)) <=> lastGrade[c]

C5_Witness ==
    /\ evt.kind = "replaced"
    /\ \E c \in DOMAIN CurrentProgress :
        CurrentProgress[c].done = Some(TRUE) /\ lastGrade[c]
    /\ \E c \in DOMAIN CurrentProgress :
        CurrentProgress[c].done = Some(FALSE) /\ ~lastGrade[c]

\* C6: along a run of consecutive good grades of an entry, intervalDays
\* after each grade is >= intervalDays before it; it drops, to 0, only on an
\* again grade (a removal leaves no entry, hence no intervalDays).
C6_IntervalMonotone ==
    IsSome(schedCur) =>
        /\ schedGrade = Some(TRUE) => schedCur[1].intervalDays >= PrevInterval
        /\ schedCur[1].intervalDays < PrevInterval =>
             schedGrade = Some(FALSE) /\ schedCur[1].intervalDays = 0

C6_Witness ==
    /\ schedCount >= 2
    /\ schedGrade = Some(TRUE)
    /\ IsSome(schedPrev)
    /\ schedPrev[1].done = Some(TRUE)
    /\ schedPrev[1].intervalDays >= 1
    /\ schedCur[1].intervalDays > schedPrev[1].intervalDays

\* the positions of the session's cards whose entry is absent or not done
KeptPositions ==
    { i \in 1..Len(viewCards) :
        \/ viewCards[i].id \notin DOMAIN SessionProgress
        \/ SessionProgress[viewCards[i].id].done # Some(TRUE) }

\* the j-th kept position, in list order
KeptAt(j) == CHOOSE i \in KeptPositions : Cardinality({ k \in KeptPositions : k <= i }) = j

\* C7: in every state of the review session, remainingCards() is the
\* sub-list of the session's cards, in list order, whose progress entry is
\* absent or not done, and currentCard() is remaining[index mod |remaining|],
\* or none when remaining is empty.
C7_RemainingAndCurrent ==
    /\ Len(SessionRemaining) = Cardinality(KeptPositions)
    /\ \A j \in 1..Len(SessionRemaining) : SessionRemaining[j] = viewCards[KeptAt(j)]
    /\ IF Len(SessionRemaining) = 0
       THEN SessionCurrent = None
       ELSE SessionCurrent =
              Some(SessionRemaining[(viewIndex % Len(SessionRemaining)) + 1])

C7_Witness ==
    /\ SessionSettled
    /\ Len(viewCards) = 3
    /\ IsDone(SessionProgress, viewCards[1].id)
    /\ SessionRemaining = << viewCards[2], viewCards[3] >>
    /\ viewIndex = 1
    /\ SessionCurrent = Some(viewCards[3])

\* C8: grading the last remaining card as good leaves remaining() empty and
\* current() none, and the session then shows 'all cards done'; that screen
\* is shown only with a non-empty card list, and the 'no cards' screen
\* exactly when the card list is empty.
C8_FinishedVersusEmpty ==
    /\ (evt.kind = "graded" /\ evt.isGood /\ Len(evt.remBefore) = 1) =>
         /\ SessionRemaining = << >>
         /\ SessionCurrent = None
         /\ display.screen = "finished"
    /\ SessionSettled =>
         /\ display.screen = "finished" => Len(viewCards) > 0
         /\ display.screen # "closed" =>
              (display.screen = "empty" <=> Len(viewCards) = 0)

C8_Witness ==
    /\ evt.kind = "graded"
    /\ evt.isGood
    /\ Len(evt.remBefore) = 1
    /\ Len(viewCards) > 1
    /\ SessionRemaining = << >>
    /\ display.screen = "finished"

\* C9: after a Restart completes, the progress map is empty both in the cache
\* and in the stored progress document, the session index is 0, the answer
\* is hidden, and current() is the first card of the card list.
C9_AfterRestart ==
    evt.kind = "restarted" =>
        /\ CurrentProgress = EmptyMap
        /\ readJson(progressFile, ProgressFile(EmptyMap)).progress = EmptyMap
        /\ viewIndex = 0
        /\ ~showingAnswer
        /\ SessionCurrent = (IF Len(viewCards) = 0 THEN None ELSE Some(viewCards[1]))

\* C10: after replaceAllCards(cards) completes, the progress map (the map
\* loadProgress returns) consists of exactly the prior entries whose card id
\* occurs in cards, each with its value unchanged, and the stored flashcard
\* set equals cards.
C10_ReplaceAllCards ==
    evt.kind = "replaced" =>
        /\ DOMAIN CurrentProgress = DOMAIN evt.prior \cap Ids(evt.cards)
        /\ \A c \in DOMAIN CurrentProgress : CurrentProgress[c] = evt.prior[c]
        /\ cardsFile = Some([version |-> 1, cards |-> evt.cards])

C10_Witness ==
    /\ evt.kind = "replaced"
    /\ \E c \in DOMAIN evt.prior : c \notin Ids(evt.cards) /\ c \notin DOMAIN CurrentProgress
    /\ \E c \in DOMAIN evt.prior : c \in Ids(evt.cards) /\ c \in DOMAIN CurrentProgress
    /\ cardsFile = Some([version |-> 1, cards |-> evt.cards])

\* the stored flashcard set
StoredCards == readJson(cardsFile, FlashcardFile(<< >>)).cards

\* C11: a Delete in the manager removes the clicked card, and only that card,
\* from the stored flashcard set and removes its progress entry, every other
\* progress entry staying as it was, whatever the order in which the
\* manager's handlers are started, a click before the previous handler has
\* finished and re-rendered included.
C11_DeleteOnlyThatCard ==
    evt.kind = "deleted" =>
        /\ evt.gone = {evt.card}
        /\ evt.card \notin Ids(StoredCards)
        /\ evt.card \notin DOMAIN CurrentProgress
        /\ \A c \in DOMAIN evt.prior \ {evt.card} :
             c \in Ids(StoredCards) =>
                 c \in DOMAIN CurrentProgress /\ CurrentProgress[c] = evt.prior[c]

\* the progress map of the stored progress document
StoredProgress == readJson(progressFile, ProgressFile(EmptyMap)).progress

\* C12: at any point (where the process may crash) the stored progress
\* document differs from the in-memory progress by at most the most recent
\* progress update: it is the in-memory map, or the in-memory map as it was
\* before that update; every earlier update is on storage.
C12_CrashLosesAtMostOne ==
    progressCache # NoObj => StoredProgress \in {CurrentProgress, prevMem}

\* ------------------------------------------------------------ SpecRead
\* One stored document of each kind, read once by its loader, for every
\* content the path can hold.

\* Largest number of items or entries in a stored list or map.
MaxItems == 1

\* a JSON value: its type and, for a number, its value, for a string, list or
\* object, its size
JVal(tag, n) == [t |-> tag, n |-> n]

JNull == JVal("null", 0)

\* the values `x || d` replaces by d, and those `x ?? d` replaces
Falsy(v) == v.t = "null" \/ (v.t \in {"num", "str"} /\ v.n = 0)

Nullish(v) == v.t = "null"

Kinds == {"highlights", "cards", "progress"}

\* the field of each kind's document its loader returns
ListField(kind) == kind

\* the fallback each loader passes to readJson (lines 721-725, 735-739,
\* 746-749, 827-830); sourcePath is the loader's argument
Fallback(kind) ==
    CASE kind = "highlights" ->
           [version |-> JVal("num", 1), sourcePath |-> JVal("str", 1),
            highlights |-> JVal("arr", 0)]
      [] kind = "cards" -> [version |-> JVal("num", 1), cards |-> JVal("arr", 0)]
      [] kind = "progress" -> [version |-> JVal("num", 1), progress |-> JVal("obj", 0)]

\* the values a stored field can have
FieldValues ==
    {JNull} \cup { JVal(tag, n) : tag \in {"num", "arr", "obj"}, n \in 0..MaxItems }

\* what can be at the path: nothing, a file adapter.read fails on, text
\* JSON.parse fails on, or JSON text; the own enumerable properties of the
\* parsed value are `fields` (none for null, a number or a boolean)
RawDocs(kind) ==
    { [kind |-> k, fields |-> << >>] : k \in {"missing", "unreadable", "garbage"} }
    \cup { [kind |-> "json", fields |-> m] :
             m \in UNION { [S -> FieldValues] :
                             S \in SUBSET ((DOMAIN Fallback(kind)) \cup {"extra"}) } }

\* an outcome: a returned value or a thrown error
Ok(v) == [threw |-> FALSE, value |-> v]

Thrown == [threw |-> TRUE, value |-> << >>]

\* Object.assign({}, a, b)
ObjectAssign(a, b) ==
    [f \in (DOMAIN a) \cup (DOMAIN b) |-> IF f \in DOMAIN b THEN b[f] ELSE a[f]]

\* readJson lines 880-882: catch { return fallback; }
CatchRethrow(fallback) == Thrown

Catch(fallback) == Ok(fallback)

\* readJson (lines 873-883) on any content of the path.  On a document that
\* holds every field it is readJson above: the parsed fields win.
readJsonAny(raw, fallback) ==
    IF raw.kind = "missing" THEN Ok(fallback)
    ELSE IF raw.kind \in {"unreadable", "garbage"} THEN Catch(fallback)
    ELSE Ok(ObjectAssign(fallback, raw.fields))

\* loadHighlights line 740 / loadAllCards line 750: data.<list> || []
OrEmptyList(r, kind) ==
    IF r.threw THEN r
    ELSE Ok(IF Falsy(r.value[ListField(kind)]) THEN JVal("arr", 0)
            ELSE r.value[ListField(kind)])

\* loadProgress line 832: this.progressCache.progress ?? {}
OrEmptyMap(r) ==
    IF r.threw THEN r
    ELSE Ok(IF Nullish(r.value["progress"]) THEN JVal("obj", 0) ELSE r.value["progress"])

InitRead ==
    /\ InitMain
    /\ SchedIdle
    /\ GenIdle
    /\ GeoIdle
    /\ ExpIdle
    /\ AttIdle
    /\ rdKind \in Kinds
    /\ rdRaw \in RawDocs(rdKind)
    /\ rdDoc = None
    /\ rdOut = None

\* loadHighlights (lines 732-741)
RdLoadHighlights ==
    /\ rdKind = "highlights"
    /\ rdDoc = None
    /\ rdDoc' = Some(readJsonAny(rdRaw, Fallback("highlights")))
    /\ rdOut' = Some(OrEmptyList(readJsonAny(rdRaw, Fallback("highlights")), "highlights"))
    /\ UNCHANGED << rdKind, rdRaw, rdRest >>

\* loadAllCards (lines 743-751)
RdLoadAllCards ==
    /\ rdKind = "cards"
    /\ rdDoc = None
    /\ rdDoc' = Some(readJsonAny(rdRaw, Fallback("cards")))
    /\ rdOut' = Some(OrEmptyList(readJsonAny(rdRaw, Fallback("cards")), "cards"))
    /\ UNCHANGED << rdKind, rdRaw, rdRest >>

\* loadProgress (lines 823-833) with the cache unpopulated
RdLoadProgress ==
    /\ rdKind = "progress"
    /\ rdDoc = None
    /\ rdDoc' = Some(readJsonAny(rdRaw, Fallback("progress")))
    /\ rdOut' = Some(OrEmptyMap(readJsonAny(rdRaw, Fallback("progress"))))
    /\ UNCHANGED << rdKind, rdRaw, rdRest >>

NextRead == RdLoadHighlights \/ RdLoadAllCards \/ RdLoadProgress

SpecRead == InitRead /\ [][NextRead]_vars

\* the empty default of each kind: no highlights, no cards, empty progress map
EmptyDefault(kind) == IF kind = "progress" THEN JVal("obj", 0) ELSE JVal("arr", 0)

\* C13: reading a highlight, flashcard or progress document that is missing,
\* unreadable or not parsable never throws and yields the kind's empty
\* default; content that parses but lacks fields gets the default's value
\* for each missing field.
C13_ReadNeverThrows ==
    rdOut # None =>
        /\ ~rdDoc[1].threw
        /\ ~rdOut[1].threw
        /\ rdRaw.kind # "json" => rdOut[1].value = EmptyDefault(rdKind)
        /\ rdRaw.kind = "json" =>
             \A f \in DOMAIN Fallback(rdKind) :
                 /\ f \in DOMAIN rdDoc[1].value
                 /\ f \notin DOMAIN rdRaw.fields =>
                      rdDoc[1].value[f] = Fallback(rdKind)[f]
                 /\ f \in DOMAIN rdRaw.fields =>
                      rdDoc[1].value[f] = rdRaw.fields[f]
        /\ (rdRaw.kind = "json" /\ rdKind \notin DOMAIN rdRaw.fields) =>
             rdOut[1].value = EmptyDefault(rdKind)

C13_Witness ==
    /\ rdOut # None
    /\ rdKind = "cards"
    /\ rdRaw.kind = "json"
    /\ DOMAIN rdRaw.fields = {"version"}
    /\ rdRaw.fields["version"] = JVal("num", 0)
    /\ rdDoc[1].value["version"] = JVal("num", 0)
    /\ rdDoc[1].value["cards"] = JVal("arr", 0)
    /\ rdOut[1] = Ok(JVal("arr", 0))

\* ------------------------------------------------------------ SpecGen
\* Capture clicks on the toolbar of one open PDF and generate commands, on
\* the highlight file of that PDF and the flashcard file.  No review session
\* and no manager is open, so refreshFlashcardView and
\* refreshFlashcardManageView (lines 1077-1097) find no leaf and return.

\* Largest number of highlights captured.
MaxHl == 2

\* Largest number of capture clicks and generate commands started.
MaxGenOps == 4

\* Largest number of items in the array a response holds.
MaxRespItems == 2

NoticeOpenPdf == "Open a PDF first."

NoticeApiKey == "Set your OpenAI API key in the plugin settings."

NoticeNothingNew == "No new flashcard highlights found."

NoticeNoneReturned == "No flashcards returned by the model."

NoticeGenerated == "Generated flashcards."

NoticeFailed == "Failed to generate flashcards."

\* a field of a response item: absent, the empty string, or other text
ItemFields == {None, Some(""), Some("t")}

\* item?.question as a condition (line 1041)
Truthy(v) == v # None /\ v # Some("")

\* an item of the parsed array: an object with or without the fields, or a
\* value that is no object (null, a number)
RespItems ==
    { [isObj |-> TRUE, question |-> q, answer |-> a] : q \in ItemFields, a \in ItemFields }
    \cup { [isObj |-> FALSE, question |-> None, answer |-> None] }

SeqsUpTo(S, n) == UNION { [1..k -> S] : k \in 0..n }

\* the text callOpenAI returns: text JSON.parse fails on, JSON text of a
\* value that is no array, or JSON text of an array
RawTexts ==
    { [kind |-> k, items |-> << >>] : k \in {"garbage", "notArray"} }
    \cup { [kind |-> "array", items |-> items] : items \in SeqsUpTo(RespItems, MaxRespItems) }

\* callOpenAI (lines 992-1014): fetch rejects, the response is not ok (line
\* 1009 throws) or its body is no JSON, else the output text
CallFailed == [threw |-> TRUE, value |-> [kind |-> "none", items |-> << >>]]

Responses == {CallFailed} \cup { [threw |-> FALSE, value |-> raw] : raw \in RawTexts }

\* parseFlashcards line 1041: filter((item) => item?.question && item?.answer)
HasQuestionOnly(item) == item.isObj /\ Truthy(item.question)

HasBoth(item) == item.isObj /\ Truthy(item.question) /\ Truthy(item.answer)

\* String(v) (lines 1043-1044)
StringOf(v) == IF v = None THEN "undefined" ELSE v[1]

\* parseFlashcards (lines 1036-1049)
parseFlashcards(raw) ==
    IF raw.kind # "array" THEN << >>
    ELSE LET kept == SelectSeq(raw.items, HasBoth)
         IN  [i \in 1..Len(kept) |->
                 [question |-> StringOf(kept[i].question),
                  answer |-> StringOf(kept[i].answer)]]

\* history: the items of a returned text that are objects with a non-empty
\* question and a non-empty answer
UsableItems(raw) ==
    IF raw.kind # "array" THEN {}
    ELSE { i \in 1..Len(raw.items) :
             /\ raw.items[i].isObj
             /\ raw.items[i].question = Some("t")
             /\ raw.items[i].answer = Some("t") }

\* the catch of the generate command (lines 971-974)
CatchSilent(notices) == notices

CatchNotice(notices) == Append(notices, NoticeFailed)

IsGenerated(h) == h.flashcardGenerated = Some(TRUE)

\* line 927-929: highlights.filter(h => h.isFlashcard && !h.flashcardGenerated)
IsNewFlashcard(h) == h.isFlashcard /\ ~IsGenerated(h)

GeneratedIds(file) ==
    LET hs == readJson(file, HighlightFile(<< >>)).highlights
    IN  { hs[i].id : i \in { j \in 1..Len(hs) : IsGenerated(hs[j]) } }

\* markHighlightsGenerated lines 984-986
MarkAll(highlights, idSet) ==
    [i \in 1..Len(highlights) |->
        IF highlights[i].id \in idSet
        THEN [highlights[i] EXCEPT !.flashcardGenerated = Some(TRUE)]
        ELSE highlights[i]]

GenIdleTask(t) == genTasks[t].op = "none"

GenFreeSlot == CHOOSE t \in Slots : GenIdleTask(t)

\* a click or command comes when none is pending, or (conc) while others are
GenCanStart(conc) ==
    /\ genStarted < MaxGenOps
    /\ IF conc THEN \E t \in Slots : GenIdleTask(t) ELSE \A t \in Slots : GenIdleTask(t)

\* the command of slot t ends, having shown `notices`
GenEnded(kind, task, notices, cards1, hl1) ==
    [kind |-> kind, notices |-> notices, resp |-> task.resp, usable |-> task.usable,
     inputs |-> task.inputs, writes |-> task.writes, cards0 |-> task.cards0, hl0 |-> task.hl0,
     cards1 |-> cards1, hl1 |-> hl1]

genRest == << schedVars, rdVars, geoVars, expVars, attVars, progressFile, inflight, heap, progressCache,
              viewVars, mgrVars, tasks, clock, opsStarted, histVars >>

InitGen ==
    /\ InitMain
    /\ SchedIdle
    /\ RdIdle
    /\ GenIdle
    /\ GeoIdle
    /\ ExpIdle
    /\ AttIdle

\* the toolbar click handler (lines 398-426) with a selection
\* buildHighlightFromSelection accepts, up to the call of saveHighlight
Capture(conc) ==
    /\ GenCanStart(conc)
    /\ hlNextId <= MaxHl
    /\ \E color \in CaptureColors :
        genTasks' = [genTasks EXCEPT ![GenFreeSlot] =
                        [IdleGenTask EXCEPT !.op = "capture", !.pc = "saveRead",
                                            !.hl = Some(Highlight(hlNextId, color)),
                                            !.cards0 = cardsFile, !.hl0 = hlFile]]
    /\ hlNextId' = hlNextId + 1
    /\ genStarted' = genStarted + 1
    /\ UNCHANGED << hlFile, hlSaved, hlMarked, hlSeenGen, genEvt, cardsFile, nextId, genRest >>

\* saveHighlight lines 719-728: the file is read, the highlight pushed and
\* the write issued
SaveRead(t) ==
    /\ genTasks[t].pc = "saveRead"
    /\ LET existing == readJson(hlFile, HighlightFile(<< >>))
           doc == HighlightFile(Append(existing.highlights, genTasks[t].hl[1]))
       IN  genTasks' = [genTasks EXCEPT ![t].pc = "saveWrite", ![t].doc = Some(doc),
                                        ![t].writes = @ + 1]
    /\ UNCHANGED << hlFile, genStarted, hlNextId, hlSaved, hlMarked, hlSeenGen, genEvt,
                    cardsFile, nextId, genRest >>

\* the write of saveHighlight completes (line 729) and the handler goes on
\* to lines 424-425; renderHighlights only reads
SaveWritten(t) ==
    /\ genTasks[t].pc = "saveWrite"
    /\ hlFile' = genTasks[t].doc
    /\ hlSaved' = hlSaved \cup {genTasks[t].hl[1]}
    /\ hlSeenGen' = hlSeenGen \cup GeneratedIds(genTasks[t].doc)
    /\ genEvt' = GenEnded("capture", genTasks[t], << >>, cardsFile, genTasks[t].doc)
    /\ genTasks' = [genTasks EXCEPT ![t] = IdleGenTask]
    /\ UNCHANGED << genStarted, hlNextId, hlMarked, cardsFile, nextId, genRest >>

\* generateFlashcardsFromActivePdf lines 914-926, with or without an active
\* PDF and an API key
Generate(conc) ==
    /\ GenCanStart(conc)
    /\ genStarted' = genStarted + 1
    /\ \E file \in BOOLEAN, apiKey \in BOOLEAN :
        LET task == [IdleGenTask EXCEPT !.op = "generate", !.pc = "load",
                                        !.cards0 = cardsFile, !.hl0 = hlFile]
        IN  IF ~file
            THEN /\ genEvt' = GenEnded("generate", task, << NoticeOpenPdf >>, cardsFile, hlFile)
                 /\ UNCHANGED genTasks
            ELSE IF ~apiKey
            THEN /\ genEvt' = GenEnded("generate", task, << NoticeApiKey >>, cardsFile, hlFile)
                 /\ UNCHANGED genTasks
            ELSE /\ genTasks' = [genTasks EXCEPT ![GenFreeSlot] = task]
                 /\ UNCHANGED genEvt
    /\ UNCHANGED << hlFile, hlNextId, hlSaved, hlMarked, hlSeenGen, cardsFile, nextId, genRest >>

\* lines 926-934: the highlights are loaded and filtered
GenLoaded(t) ==
    /\ genTasks[t].pc = "load"
    /\ LET highlights == readJson(hlFile, HighlightFile(<< >>)).highlights
           flashcardHighlights == SelectSeq(highlights, IsNewFlashcard)
           inputs == [i \in 1..Len(flashcardHighlights) |-> flashcardHighlights[i].id]
       IN  IF Len(flashcardHighlights) = 0
           THEN /\ genEvt' = GenEnded("generate", genTasks[t], << NoticeNothingNew >>,
                                      cardsFile, hlFile)
                /\ genTasks' = [genTasks EXCEPT ![t] = IdleGenTask]
           ELSE /\ genTasks' = [genTasks EXCEPT ![t].pc = "call", ![t].inputs = inputs]
                /\ UNCHANGED genEvt
    /\ UNCHANGED << hlFile, genStarted, hlNextId, hlSaved, hlMarked, hlSeenGen,
                    cardsFile, nextId, genRest >>

\* lines 948-966 and 971-974: callOpenAI returns or throws; the text is
\* parsed; with cards, addCards is called
GenResponded(t) ==
    /\ genTasks[t].pc = "call"
    /\ \E resp \in Responses :
        LET task == [genTasks[t] EXCEPT !.resp = Some(resp),
                                        !.usable = Cardinality(UsableItems(resp.value))]
            cards == parseFlashcards(resp.value)
            newCards == [i \in 1..Len(cards) |->
                            GeneratedCard(nextId + i - 1, task.inputs)]
        IN  IF resp.threw
            THEN /\ genEvt' = GenEnded("generate", task, CatchNotice(<< >>), cardsFile, hlFile)
                 /\ genTasks' = [genTasks EXCEPT ![t] = IdleGenTask]
                 /\ UNCHANGED nextId
            ELSE IF Len(cards) = 0
            THEN /\ genEvt' = GenEnded("generate", task, << NoticeNoneReturned >>,
                                       cardsFile, hlFile)
                 /\ genTasks' = [genTasks EXCEPT ![t] = IdleGenTask]
                 /\ UNCHANGED nextId
            ELSE /\ genTasks' = [genTasks EXCEPT ![t].pc = "addRead",
                                                 ![t].newCards = newCards,
                                                 ![t].usable = task.usable]
                 /\ nextId' = nextId + Len(cards)
                 /\ UNCHANGED genEvt
    /\ UNCHANGED << hlFile, genStarted, hlNextId, hlSaved, hlMarked, hlSeenGen,
                    cardsFile, genRest >>

\* addCards lines 754-760: the file is read, the cards pushed and the write
\* issued
GenAddRead(t) ==
    /\ genTasks[t].pc = "addRead"
    /\ LET data == readJson(cardsFile, FlashcardFile(<< >>))
           doc == [data EXCEPT !.cards = @ \o genTasks[t].newCards]
       IN  genTasks' = [genTasks EXCEPT ![t].pc = "addWrite", ![t].doc = Some(doc),
                                        ![t].writes = @ + 1]
    /\ UNCHANGED << hlFile, genStarted, hlNextId, hlSaved, hlMarked, hlSeenGen, genEvt,
                    cardsFile, nextId, genRest >>

\* the write of addCards completes (line 761); line 967 calls
\* markHighlightsGenerated with the ids of the input highlights
GenAddWritten(t) ==
    /\ genTasks[t].pc = "addWrite"
    /\ cardsFile' = genTasks[t].doc
    /\ hlMarked' = hlMarked \cup { genTasks[t].inputs[i] : i \in 1..Len(genTasks[t].inputs) }
    /\ genTasks' = [genTasks EXCEPT ![t].pc = "markRead", ![t].doc = None]
    /\ UNCHANGED << hlFile, genStarted, hlNextId, hlSaved, hlSeenGen, genEvt, nextId, genRest >>

\* markHighlightsGenerated lines 978-988: the file is read, the highlights
\* mapped and the write issued
GenMarkRead(t) ==
    /\ genTasks[t].pc = "markRead"
    /\ LET existing == readJson(hlFile, HighlightFile(<< >>))
           idSet == { genTasks[t].inputs[i] : i \in 1..Len(genTasks[t].inputs) }
           doc == [existing EXCEPT !.highlights = MarkAll(@, idSet)]
       IN  genTasks' = [genTasks EXCEPT ![t].pc = "markWrite", ![t].doc = Some(doc),
                                        ![t].writes = @ + 1]
    /\ UNCHANGED << hlFile, genStarted, hlNextId, hlSaved, hlMarked, hlSeenGen, genEvt,
                    cardsFile, nextId, genRest >>

\* the write of markHighlightsGenerated completes (line 989); lines 968-970
GenMarkWritten(t) ==
    /\ genTasks[t].pc = "markWrite"
    /\ hlFile' = genTasks[t].doc
    /\ hlSeenGen' = hlSeenGen \cup GeneratedIds(genTasks[t].doc)
    /\ genEvt' = GenEnded("generate", genTasks[t], << NoticeGenerated >>,
                          cardsFile, genTasks[t].doc)
    /\ genTasks' = [genTasks EXCEPT ![t] = IdleGenTask]
    /\ UNCHANGED << genStarted, hlNextId, hlSaved, hlMarked, cardsFile, nextId, genRest >>

GenSteps ==
    \/ \E t \in Slots : SaveRead(t)
    \/ \E t \in Slots : SaveWritten(t)
    \/ \E t \in Slots : GenLoaded(t)
    \/ \E t \in Slots : GenResponded(t)
    \/ \E t \in Slots : GenAddRead(t)
    \/ \E t \in Slots : GenAddWritten(t)
    \/ \E t \in Slots : GenMarkRead(t)
    \/ \E t \in Slots : GenMarkWritten(t)

\* a click or command comes only when none is pending
NextGen == Capture(FALSE) \/ Generate(FALSE) \/ GenSteps

SpecGen == InitGen /\ [][NextGen]_vars

\* a click or command may come while earlier ones are pending
NextGenConc == Capture(TRUE) \/ Generate(TRUE) \/ GenSteps

SpecGenConc == InitGen /\ [][NextGenConc]_vars

StoredHighlights == readJson(hlFile, HighlightFile(<< >>)).highlights

\* the highlight as saved, with flashcardGenerated true
Marked(h) == [h EXCEPT !.flashcardGenerated = Some(TRUE)]

\* C14: every highlight whose saveHighlight has returned is in the highlight
\* file, with every field as saved except flashcardGenerated, which is true
\* only for an id passed to markHighlightsGenerated and, once true in the
\* file, stays true - for every interleaving of saveHighlight and
\* markHighlightsGenerated on the same source document.
C14_SavedHighlightsStay ==
    /\ \A h \in hlSaved :
          \E i \in 1..Len(StoredHighlights) :
              \/ StoredHighlights[i] = h
              \/ StoredHighlights[i] = Marked(h) /\ h.id \in hlMarked
    /\ \A id \in hlSeenGen : id \in GeneratedIds(hlFile)

\* the generate command that ended last ended on a failed generation call
CallFailedLast ==
    /\ genEvt.kind = "generate"
    /\ genEvt.resp # None
    /\ genEvt.resp[1].threw

\* C15: when the generation call fails, the generate command ends with the
\* failure notice and no other notice, has issued no write, and the
\* flashcard file and the highlight file are as they were when it started:
\* no card added, no highlight marked flashcardGenerated.
C15_CallFailureWritesNothing ==
    CallFailedLast =>
        /\ genEvt.notices = << NoticeFailed >>
        /\ genEvt.writes = 0
        /\ genEvt.cards1 = genEvt.cards0
        /\ genEvt.hl1 = genEvt.hl0
        /\ GeneratedIds(genEvt.hl1) = GeneratedIds(genEvt.hl0)

\* the call fails in a command with an input highlight, after an earlier
\* command has stored cards
C15_Witness ==
    /\ CallFailedLast
    /\ Len(genEvt.inputs) = 1
    /\ genEvt.cards0 # None
    /\ cardsFile = genEvt.cards0
    /\ hlFile = genEvt.hl0
    /\ Len(StoredHighlights) = 2

\* the generate command that ended last ended on a returned text
ReturnedLast ==
    /\ genEvt.kind = "generate"
    /\ genEvt.resp # None
    /\ ~genEvt.resp[1].threw

\* C16: parseFlashcards keeps exactly the items that have both question and
\* answer (none of text that is unparsable or no array); when the generation
\* call succeeds and no item has both, the command shows the 'no flashcards
\* returned' notice and no other, issues no write, and leaves the flashcard
\* file and the highlight file as they were: no card added, no highlight
\* marked; a command adds cards only from a text with such an item.
C16_EmptyResultIsNotFailure ==
    /\ \A raw \in RawTexts : Len(parseFlashcards(raw)) = Cardinality(UsableItems(raw))
    /\ ReturnedLast =>
          /\ genEvt.usable = 0
          /\ parseFlashcards(genEvt.resp[1].value) = << >>
          /\ genEvt.notices = << NoticeNoneReturned >>
          /\ genEvt.writes = 0
          /\ genEvt.cards1 = genEvt.cards0
          /\ genEvt.hl1 = genEvt.hl0
    /\ \A t \in Slots : genTasks[t].writes > 0 => genTasks[t].usable > 0 \/ genTasks[t].op = "capture"
    /\ (genEvt.kind = "generate" /\ genEvt.writes > 0) => genEvt.usable > 0

\* the call returns an array whose items each lack a field, in a command
\* with an input highlight
C16_Witness ==
    /\ ReturnedLast
    /\ genEvt.resp[1].value.kind = "array"
    /\ Len(genEvt.resp[1].value.items) = 2
    /\ genEvt.resp[1].value.items[1].isObj
    /\ genEvt.resp[1].value.items[1].question = Some("t")
    /\ genEvt.resp[1].value.items[1].answer = None
    /\ Len(genEvt.inputs) = 1
    /\ genEvt.notices = << NoticeNoneReturned >>
    /\ hlFile = genEvt.hl0
    /\ GeneratedIds(hlFile) = {}

\* ------------------------------------------------------------ SpecGeom
\* One capture click on the toolbar of a PDF leaf, for every selection and
\* page layout of a small set: buildHighlightFromSelection, then (with a
\* highlight) saveHighlight and renderHighlights.

\* JavaScript numbers are binary floating-point values; every arithmetic
\* operation rounds its exact result to the nearest value with
\* MantissaBits significant bits (53 in the program), ties to even.
MantissaBits == 5

\* Largest number of client rects of a selection.
MaxRects == 2

\* The binary exponents a rounded value can have.
MaxExp == 12

Abs(i) == IF i < 0 THEN 0 - i ELSE i

Pow2(k) == 2 ^ k

Num(i) == [n |-> i, d |-> 1]

\* the greatest power of two that divides a and d (a > 0, d a power of two)
CommonPow2(a, d) ==
    CHOOSE g \in { Pow2(k) : k \in 0..(2 * MaxExp) } :
        /\ d % g = 0 /\ a % g = 0
        /\ ~(d % (2 * g) = 0 /\ a % (2 * g) = 0)

Reduced(n, d, g) == [n |-> n \div g, d |-> d \div g]

\* a number: the fraction n/d, d a power of two, in lowest terms
Canon(n, d) == IF n = 0 THEN Num(0) ELSE Reduced(n, d, CommonPow2(Abs(n), d))

\* a/d = (Scaled(a, e) / Divisor(d, e)) * 2^e
Scaled(a, e) == IF e < 0 THEN a * Pow2(0 - e) ELSE a

Divisor(d, e) == IF e < 0 THEN d ELSE d * Pow2(e)

\* the exponent at which a/d (a, d > 0) has MantissaBits significant bits
Exponent(a, d) ==
    CHOOSE e \in (0 - MaxExp)..MaxExp :
        /\ Pow2(MantissaBits - 1) * Divisor(d, e) <= Scaled(a, e)
        /\ Scaled(a, e) < Pow2(MantissaBits) * Divisor(d, e)

\* the quotient m0, remainder r2/2 of den, rounded to nearest, ties to even
TiesToEven(m0, r2, den) ==
    IF r2 > den \/ (r2 = den /\ m0 % 2 = 1) THEN m0 + 1 ELSE m0

Mantissa(num, den) == TiesToEven(num \div den, 2 * (num % den), den)

WithSign(n, m) == IF n < 0 THEN 0 - m ELSE m

RoundAt(n, d, e) ==
    IF e < 0
    THEN Canon(WithSign(n, Mantissa(Scaled(Abs(n), e), Divisor(d, e))), Pow2(0 - e))
    ELSE Canon(WithSign(n, Mantissa(Scaled(Abs(n), e), Divisor(d, e))) * Pow2(e), 1)

\* the exact fraction n/d (d > 0) rounded to a number
Round(n, d) == IF n = 0 THEN Num(0) ELSE RoundAt(n, d, Exponent(Abs(n), d))

\* a + b, a - b, a * b and a / b (b not zero) of numbers
FAdd(a, b) == Round(a.n * b.d + b.n * a.d, a.d * b.d)

FSub(a, b) == Round(a.n * b.d - b.n * a.d, a.d * b.d)

FMul(a, b) == Round(a.n * b.n, a.d * b.d)

FDiv(a, b) ==
    IF b.n > 0 THEN Round(a.n * b.d, a.d * b.n) ELSE Round(0 - a.n * b.d, a.d * (0 - b.n))

FLe(a, b) == a.n * b.d <= b.n * a.d

FLt(a, b) == a.n * b.d < b.n * a.d

\* a DOMRect: left, top, width, height (right and bottom are left + width
\* and top + height)
Rect(left, top, width, height) ==
    [left |-> Num(left), top |-> Num(top), width |-> Num(width), height |-> Num(height)]

Right(box) == FAdd(box.left, box.width)

Bottom(box) == FAdd(box.top, box.height)

\* line 454: rect.width > 1 && rect.height > 1
NonDegenerateWidthOnly(rect) == FLt(Num(1), rect.width)

NonDegenerate(rect) == FLt(Num(1), rect.width) /\ FLt(Num(1), rect.height)

\* lines 464-465
CenterX(rect) == FAdd(rect.left, FDiv(rect.width, Num(2)))

CenterY(rect) == FAdd(rect.top, FDiv(rect.height, Num(2)))

\* lines 468-474
InBox(centerX, centerY, box) ==
    /\ FLe(box.left, centerX)
    /\ FLe(centerX, Right(box))
    /\ FLe(box.top, centerY)
    /\ FLe(centerY, Bottom(box))

Inside(rect, box) == InBox(CenterX(rect), CenterY(rect), box)

\* the first of the indices S, 0 when there is none
FirstOf(S) == IF S = {} THEN 0 ELSE CHOOSE i \in S : \A j \in S : i <= j

\* lines 467-477: pages.find(...), 0 for undefined
PageOf(rect, pages) == FirstOf({ i \in 1..Len(pages) : Inside(rect, pages[i].box) })

\* lines 480-485
NormaliseByHeight(rect, box) ==
    [x |-> FDiv(FSub(rect.left, box.left), box.height),
     y |-> FDiv(FSub(rect.top, box.top), box.height),
     w |-> FDiv(rect.width, box.height),
     h |-> FDiv(rect.height, box.height)]

Normalise(rect, box) ==
    [x |-> FDiv(FSub(rect.left, box.left), box.width),
     y |-> FDiv(FSub(rect.top, box.top), box.height),
     w |-> FDiv(rect.width, box.width),
     h |-> FDiv(rect.height, box.height)]

\* the indices of `at` that hold v, in order
IndicesOf(at, v) == SelectSeq([i \in 1..Len(at) |-> i], LAMBDA i : at[i] = v)

\* the values of `at` other than 0, each once, in the order of their first
\* occurrence
FirstSeen(at) ==
    LET first == SelectSeq([i \in 1..Len(at) |-> i],
                           LAMBDA i : at[i] # 0 /\ \A j \in 1..(i - 1) : at[j] # at[i])
    IN  [k \in 1..Len(first) |-> at[first[k]]]

\* the entries of pageMap (lines 461, 487-488, 493-495) when rects[i] has
\* its centre in pages[at[i]]: one entry per page element found, in the
\* order the entries were set, each with its rects in the order pushed.
\* line 478: page = parseInt(pageEl.dataset.pageNumber ?? "1", 10) - 1
Entries(rects, pages, at, found) ==
    [k \in 1..Len(found) |->
        [page |-> pages[found[k]].pageNumber - 1,
         rects |-> [m \in 1..Len(IndicesOf(at, found[k])) |->
                       Normalise(rects[IndicesOf(at, found[k])[m]], pages[found[k]].box)]]]

\* lines 463-489: rects.forEach
PageMap(rects, pages) ==
    Entries(rects, pages, [i \in 1..Len(rects) |-> PageOf(rects[i], pages)],
            FirstSeen([i \in 1..Len(rects) |-> PageOf(rects[i], pages)]))

\* buildHighlightFromSelection (lines 446-505): None for null
\* lines 451-491: the entries of pagesArr; none when there is no rect
\* wider and higher than 1, no page element, or no rect with a page
SelectionPages(selection, pages) ==
    IF Len(SelectSeq(selection, NonDegenerate)) = 0 \/ Len(pages) = 0 THEN << >>
    ELSE PageMap(SelectSeq(selection, NonDegenerate), pages)

\* lines 491-504: null (None) without entries, else the highlight
HighlightOf(pagesArr, color, id) ==
    IF Len(pagesArr) = 0 THEN None
    ELSE Some([id |-> id, color |-> color, isFlashcard |-> (color = "flashcard"),
               flashcardGenerated |-> None, pages |-> pagesArr])

buildHighlightFromSelection(selection, pages, color, id) ==
    HighlightOf(SelectionPages(selection, pages), color, id)

\* renderHighlights lines 539-544: left, top, width and height of the drawn
\* box, the percentages resolved against the box of the page
Denormalise(norm, box) ==
    [left |-> FAdd(box.left, FMul(norm.x, box.width)),
     top |-> FAdd(box.top, FMul(norm.y, box.height)),
     width |-> FMul(norm.w, box.width),
     height |-> FMul(norm.h, box.height)]

\* renderHighlights lines 525-548 for one highlight: per page element, the
\* boxes drawn for the entry of its page number
Drawn(highlight, pages) ==
    [i \in 1..Len(pages) |->
        LET entries == SelectSeq(highlight.pages,
                                 LAMBDA p : p.page = pages[i].pageNumber - 1)
        IN  IF entries = << >> THEN << >>
            ELSE [k \in 1..Len(entries[1].rects) |->
                     Denormalise(entries[1].rects[k], pages[i].box)]]

\* a mounted page element: its bounding box and its data-page-number
PageEl(left, top, width, height, pageNumber) ==
    [box |-> Rect(left, top, width, height), pageNumber |-> pageNumber]

\* the viewer with no page mounted, with one page, with two pages one under
\* the other
PageLayouts ==
    { << >>,
      << PageEl(2, 0, 11, 8, 1) >>,
      << PageEl(2, 0, 11, 8, 1), PageEl(2, 10, 11, 8, 2) >> }

\* the client rects a selection can have: inside the first page (at its
\* corner, further in), across its edges, beside it, on the top edge of the
\* second page, inside the second page, no wider than 1, no higher than 1
ClientRects ==
    { Rect(2, 0, 3, 2), Rect(5, 3, 3, 2), Rect(0, 0, 12, 2), Rect(0, 0, 3, 2),
      Rect(2, 9, 3, 2), Rect(2, 11, 3, 2), Rect(2, 0, 1, 2), Rect(2, 0, 3, 1) }

Selections == SeqsUpTo(ClientRects, MaxRects)

NoticeNoCapture == "Could not capture selection."

\* a highlight captured earlier
EarlierHighlight ==
    [id |-> 0, color |-> "yellow", isFlashcard |-> FALSE, flashcardGenerated |-> None,
     pages |-> << [page |-> 0, rects |-> << Normalise(Rect(2, 0, 3, 2), Rect(2, 0, 11, 8)) >>] >>]

geoRest == << schedVars, rdVars, expVars, attVars, genTasks, genStarted, hlNextId, hlSaved, hlMarked,
              hlSeenGen, genEvt, mainVars >>

InitGeom ==
    /\ InitMain
    /\ SchedIdle
    /\ RdIdle
    /\ genTasks = [t \in Slots |-> IdleGenTask]
    /\ genStarted = 0
    /\ hlNextId = 1
    /\ hlSaved = {}
    /\ hlMarked = {}
    /\ hlSeenGen = {}
    /\ genEvt = NoGenEvt
    /\ hlFile \in {None, Some(HighlightFile(<< EarlierHighlight >>))}
    /\ geoPages \in PageLayouts
    /\ geoSel = None
    /\ geoOut = None
    /\ geoNotice = None
    /\ geoDrawn = << >>
    /\ ExpIdle
    /\ AttIdle

\* the click handler (lines 398-426) on a selection: without a highlight
\* the notice of line 413; with one, saveHighlight writes it and
\* renderHighlights draws it.  The highlight is
\* buildHighlightFromSelection(selection, geoPages, color, hlNextId).
GeoClick ==
    /\ geoSel = None
    /\ \E selection \in Selections :
       \E pagesArr \in { SelectionPages(selection, geoPages) } :
       \E color \in CaptureColors :
       \E highlight \in { HighlightOf(pagesArr, color, hlNextId) } :
          /\ geoSel' = Some(selection)
          /\ geoOut' = Some(highlight)
          /\ IF highlight = None
             THEN /\ geoNotice' = Some(NoticeNoCapture)
                  /\ UNCHANGED << hlFile, geoDrawn >>
             ELSE /\ hlFile' = Some(HighlightFile(
                                   Append(readJson(hlFile, HighlightFile(<< >>)).highlights,
                                          highlight[1])))
                  /\ geoDrawn' = Drawn(highlight[1], geoPages)
                  /\ UNCHANGED geoNotice
    /\ UNCHANGED << geoPages, geoRest >>

NextGeom == GeoClick

SpecGeom == InitGeom /\ [][NextGeom]_vars

\* The selections and page boxes of this specification have whole-pixel
\* coordinates; the conditions of the claims on them are stated exactly.

\* width or height <= 1
Degenerate(rect) == rect.width.n <= 1 \/ rect.height.n <= 1

\* the centre of the rect lies inside the box, edges included
CentreIn(rect, box) ==
    /\ 2 * box.left.n <= 2 * rect.left.n + rect.width.n
    /\ 2 * rect.left.n + rect.width.n <= 2 * (box.left.n + box.width.n)
    /\ 2 * box.top.n <= 2 * rect.top.n + rect.height.n
    /\ 2 * rect.top.n + rect.height.n <= 2 * (box.top.n + box.height.n)

\* the page elements whose box holds the centre of the rect
PagesAround(rect, pages) == { i \in 1..Len(pages) : CentreIn(rect, pages[i].box) }

\* every rect of the selection is degenerate or has its centre in no page box
NoUsableRect(selection, pages) ==
    \A i \in 1..Len(selection) :
        Degenerate(selection[i]) \/ PagesAround(selection[i], pages) = {}

\* C17: a capture click on a selection whose rects are all degenerate (width
\* or height <= 1) or have their centre inside no mounted page box gets no
\* highlight from buildHighlightFromSelection, shows the 'could not capture'
\* notice and writes nothing: the highlight file, the flashcard file and the
\* progress document are unchanged and no write is issued.
C17_NoHighlightNoWrite ==
    [][ (geoSel = None /\ geoSel' # None /\ NoUsableRect(geoSel'[1], geoPages)) =>
            /\ geoOut' = Some(None)
            /\ geoNotice' = Some(NoticeNoCapture)
            /\ hlFile' = hlFile
            /\ cardsFile' = cardsFile
            /\ progressFile' = progressFile
            /\ inflight' = inflight ]_vars

\* a click on a rect of height 1 and a rect beside the page, with a
\* highlight file from an earlier capture, which is left as it was
C17_Witness ==
    /\ geoSel = Some(<< Rect(2, 0, 3, 1), Rect(0, 0, 3, 2) >>)
    /\ Len(geoPages) = 2
    /\ NoUsableRect(geoSel[1], geoPages)
    /\ geoOut = Some(None)
    /\ hlFile = Some(HighlightFile(<< EarlierHighlight >>))

\* the rects of the selection that are not degenerate and have their centre
\* in the box of page element p and of no other, in order
Originals(selection, pages, p) ==
    SelectSeq(selection, LAMBDA r : ~Degenerate(r) /\ PagesAround(r, pages) = {p})

\* a click has captured a highlight and drawn it
CapturedLast == geoSel # None /\ geoOut # None /\ geoOut # Some(None)

\* every box drawn on a page element is, in order, related by R to the
\* rect of the selection it was stored for; R(drawn, rect, box)
RoundTrip(R(_, _, _)) ==
    \A p \in 1..Len(geoPages) :
        /\ Len(geoDrawn[p]) = Len(Originals(geoSel[1], geoPages, p))
        /\ \A k \in 1..Len(geoDrawn[p]) :
              R(geoDrawn[p][k], Originals(geoSel[1], geoPages, p)[k], geoPages[p].box)

SameRect(drawn, rect, box) == drawn = rect

\* |a - b| <= 4 * 2^-MantissaBits * scale: a few units in the last place of
\* a number of the size of scale
Near(a, b, scale) ==
    Abs(a.n * b.d - b.n * a.d) * Pow2(MantissaBits) <= 4 * scale * a.d * b.d

CloseRect(drawn, rect, box) ==
    /\ Near(drawn.left, rect.left, Abs(rect.left.n) + Abs(box.left.n) + box.width.n)
    /\ Near(drawn.top, rect.top, Abs(rect.top.n) + Abs(box.top.n) + box.height.n)
    /\ Near(drawn.width, rect.width, rect.width.n)
    /\ Near(drawn.height, rect.height, rect.height.n)

\* C18 as stated: for every rect with width and height > 1 whose centre
\* lies inside exactly one page box, denormalising the stored (x, y, w, h)
\* against the same page box gives the original rect: the same left, top,
\* width and height.
C18_RoundTripExact == CapturedLast => RoundTrip(SameRect)

\* C18, amended: denormalising the stored (x, y, w, h) against the same page
\* box gives the original rect within floating-point tolerance: left, top,
\* width and height each differ from the original by at most a few units in
\* the last place (4 * 2^-MantissaBits of the size of the coordinates), the
\* division and the multiplication each rounding their result.
C18_RoundTripWithinTolerance == CapturedLast => RoundTrip(CloseRect)

\* a rect of width 3 on a page of width 11 comes back with width 23/8
C18_Witness ==
    /\ CapturedLast
    /\ geoSel[1] = << Rect(2, 0, 3, 2) >>
    /\ Len(geoPages) = 1
    /\ geoOut[1][1].pages[1].rects[1].w = [n |-> 17, d |-> 64]
    /\ geoDrawn[1][1].width = [n |-> 23, d |-> 8]
    /\ geoDrawn[1][1].left = Num(2)

\* 0 <= v <= 1
InUnit(v) == FLe(Num(0), v) /\ FLe(v, Num(1))

\* the rects stored in the highlight, over all its page entries
StoredRects(highlight) ==
    UNION { { highlight.pages[i].rects[k] : k \in 1..Len(highlight.pages[i].rects) } :
              i \in 1..Len(highlight.pages) }

\* C19: every rect stored by capture has x, y, w and h each within [0,1],
\* for every selection rect the normaliser accepts (width and height > 1,
\* centre inside a mounted page box).
C19_StoredRectsInUnitSquare ==
    CapturedLast =>
        \A r \in StoredRects(geoOut[1][1]) :
            InUnit(r.x) /\ InUnit(r.y) /\ InUnit(r.w) /\ InUnit(r.h)

\* ------------------------------------------------------------ SpecExport
\* The export command on one PDF, run twice on the same highlight list, for
\* every list of a small set.

\* Largest number of highlights in the exported list.
MaxExport == 2

\* type HighlightColor
HighlightColors == {"yellow", "green", "blue", "flashcard"}

\* line 1112
ColorOrder == << "flashcard", "yellow", "green", "blue" >>

\* lines 1120-1123
titleForColor(color) ==
    CASE color = "flashcard" -> "Flashcard"
      [] color = "yellow" -> "Yellow"
      [] color = "green" -> "Green"
      [] color = "blue" -> "Blue"

\* a text is its characters, " " for a whitespace character.
\* line 1130: text.replace(/\s+/g, " ").trim(): a whitespace character stays
\* (as one space) when the character before it is none and a later one is none
Collapse(text) ==
    LET keep == SelectSeq([i \in 1..Len(text) |-> i],
                          LAMBDA i : \/ text[i] # " "
                                     \/ /\ i > 1
                                        /\ text[i - 1] # " "
                                        /\ \E j \in (i + 1)..Len(text) : text[j] # " ")
    IN  [k \in 1..Len(keep) |-> text[keep[k]]]

\* line 1132: p.page + 1
ZeroBased(page) == page

OneBased(page) == page + 1

\* .sort((a, b) => a - b) of the values of a Set
SortedSeq(S) ==
    CHOOSE q \in [1..Cardinality(S) -> S] : \A i, j \in 1..Cardinality(S) : i < j => q[i] < q[j]

\* lines 1131-1133
PagesOf(highlight) ==
    SortedSeq({ OneBased(highlight.pages[i].page) : i \in 1..Len(highlight.pages) })

\* the lines pushed: the marker (line 1108), a heading (line 1128), a bullet
\* with its page list (lines 1134-1135; no list when it is empty), an empty
\* line (line 1137)
MarkerLine == [kind |-> "marker", title |-> "", text |-> << >>, pages |-> << >>]

HeadingLine(title) == [kind |-> "heading", title |-> title, text |-> << >>, pages |-> << >>]

BulletLine(text, pages) == [kind |-> "bullet", title |-> "", text |-> text, pages |-> pages]

EmptyLine == [kind |-> "empty", title |-> "", text |-> << >>, pages |-> << >>]

\* lines 1125-1138 for one colour
GroupLines(color, highlights) ==
    LET list == SelectSeq(highlights, LAMBDA h : h.color = color)
    IN  IF Len(list) = 0 THEN << >>
        ELSE << HeadingLine(titleForColor(color)) >>
             \o [i \in 1..Len(list) |-> BulletLine(Collapse(list[i].text), PagesOf(list[i]))]
             \o << EmptyLine >>

\* line 1140: trimEnd() drops the empty lines at the end
TrimEnd(lines) ==
    LET full == { i \in 1..Len(lines) : lines[i] # EmptyLine }
    IN  IF full = {} THEN << >>
        ELSE SubSeq(lines, 1, CHOOSE i \in full : \A j \in full : j <= i)

\* buildAnnotationMarkdown (lines 1105-1141): the lines of the text, and
\* whether a newline ends it
buildAnnotationMarkdown(highlights) ==
    IF Len(highlights) = 0 THEN [lines |-> << MarkerLine >>, newline |-> FALSE]
    ELSE [lines |-> TrimEnd(GroupLines(ColorOrder[1], highlights)
                            \o GroupLines(ColorOrder[2], highlights)
                            \o GroupLines(ColorOrder[3], highlights)
                            \o GroupLines(ColorOrder[4], highlights)),
          newline |-> TRUE]

\* a Highlight, reduced to the fields buildAnnotationMarkdown reads
ExportHighlight(color, text, pages) ==
    [color |-> color, text |-> text, pages |-> [i \in 1..Len(pages) |-> [page |-> pages[i]]]]

\* texts: a word, two words with whitespace between and around them
ExportTexts == { << "a" >>, << " ", "b", " ", " ", "c", " " >> }

\* the pages of a highlight: none, one, two out of order, the same twice
ExportPages == { << >>, << 0 >>, << 2, 0 >>, << 1, 1 >> }

ExportLists ==
    SeqsUpTo({ ExportHighlight(c, t, ps) :
                 c \in HighlightColors, t \in ExportTexts, ps \in ExportPages }, MaxExport)

expRest == << schedVars, rdVars, genVars, geoVars, attVars, mainVars >>

InitExport ==
    /\ InitMain
    /\ SchedIdle
    /\ RdIdle
    /\ GenIdle
    /\ GeoIdle
    /\ AttIdle
    /\ expIn \in ExportLists
    /\ expFile = None
    /\ expFirst = None
    /\ expAgain = FALSE
    /\ expEvt = NoExpEvt

\* the export command ends, having shown `notices`; the code of the command
\* holds no `new Notice`
ExportEnded(hasFile, notices) ==
    [kind |-> "export", hasFile |-> hasFile, notices |-> notices, note0 |-> expFile]

\* exportAnnotationsFromActivePdf lines 1144-1145: no active PDF
ExportNoFile ==
    /\ ~expAgain
    /\ expEvt' = ExportEnded(FALSE, << >>)
    /\ UNCHANGED << expIn, expFile, expFirst, expAgain, expRest >>

\* exportAnnotationsFromActivePdf (lines 1143-1157) when the note does not
\* exist: vault.create
ExportCreate ==
    /\ expFile = None
    /\ expFile' = Some(buildAnnotationMarkdown(expIn))
    /\ expFirst' = Some(buildAnnotationMarkdown(expIn))
    /\ expEvt' = ExportEnded(TRUE, << >>)
    /\ UNCHANGED << expIn, expAgain, expRest >>

\* exportAnnotationsFromActivePdf (lines 1143-1157) when the note exists:
\* vault.modify
ExportModify ==
    /\ expFile # None
    /\ ~expAgain
    /\ expFile' = Some(buildAnnotationMarkdown(expIn))
    /\ expAgain' = TRUE
    /\ expEvt' = ExportEnded(TRUE, << >>)
    /\ UNCHANGED << expIn, expFirst, expRest >>

NextExport == ExportNoFile \/ ExportCreate \/ ExportModify

SpecExport == InitExport /\ [][NextExport]_vars

\* the colours that have a highlight in the list, in the fixed order
UsedColors(highlights) ==
    SelectSeq(ColorOrder, LAMBDA c : \E i \in 1..Len(highlights) : highlights[i].color = c)

\* the positions of the headings in the lines
HeadingsAt(lines) ==
    SelectSeq([i \in 1..Len(lines) |-> i], LAMBDA i : lines[i].kind = "heading")

\* the bullets between heading number k and the next heading (or the end)
BulletsUnder(lines, k) ==
    LET at == HeadingsAt(lines)
        end == IF k < Len(at) THEN at[k + 1] - 1 ELSE Len(lines)
    IN  SelectSeq(SubSeq(lines, at[k] + 1, end), LAMBDA l : l.kind # "empty")

\* the page list is the 1-based pages of the highlight, each once, ascending
PageListOf(pages, highlight) ==
    /\ \A i, j \in 1..Len(pages) : i < j => pages[i] < pages[j]
    /\ { pages[i] : i \in 1..Len(pages) }
         = { highlight.pages[i].page + 1 : i \in 1..Len(highlight.pages) }

\* C20: of an empty list the text is the no-annotations marker alone;
\* otherwise its headings are those of the colours that have a highlight,
\* once each, in the order flashcard, yellow, green, blue, and under each
\* heading come one bullet per highlight of that colour, in input order,
\* each with the sorted, de-duplicated, 1-based page list of its highlight
\* (no list when the highlight has no page entry); a second export of the
\* same list writes the same text.
C20_ExportLayout ==
    expFile # None =>
        LET lines == expFile[1].lines
            used == UsedColors(expIn)
        IN  /\ Len(expIn) = 0 => lines = << MarkerLine >>
            /\ Len(expIn) > 0 =>
                  /\ \A i \in 1..Len(lines) : lines[i].kind # "marker"
                  /\ lines[1].kind = "heading"
                  /\ Len(HeadingsAt(lines)) = Len(used)
                  /\ \A k \in 1..Len(used) :
                        LET mine == SelectSeq(expIn, LAMBDA h : h.color = used[k])
                            under == BulletsUnder(lines, k)
                        IN  /\ lines[HeadingsAt(lines)[k]].title = titleForColor(used[k])
                            /\ Len(under) = Len(mine)
                            /\ \A m \in 1..Len(mine) :
                                  /\ under[m].kind = "bullet"
                                  /\ under[m].text = Collapse(mine[m].text)
                                  /\ PageListOf(under[m].pages, mine[m])
                                  /\ Len(mine[m].pages) = 0 <=> under[m].pages = << >>
            /\ expFile = expFirst

\* two highlights, blue before flashcard in the input, the flashcard one on
\* pages 3 and 1, exported twice
C20_Witness ==
    /\ expAgain
    /\ expFile = expFirst
    /\ Len(expIn) = 2
    /\ expIn[1].color = "blue"
    /\ expIn[2] = ExportHighlight("flashcard", << "a" >>, << 2, 0 >>)
    /\ expIn[1].pages = << >>
    /\ expFile[1].lines[1] = HeadingLine("Flashcard")
    /\ expFile[1].lines[2] = BulletLine(<< "a" >>, << 1, 3 >>)
    /\ expFile[1].lines[4] = HeadingLine("Blue")
    /\ Len(expFile[1].lines) = 5

\* ------------------------------------------------------------ the commands
\* the notices of the generate command that stand for an absent input
AbsentInputNotices == {NoticeOpenPdf, NoticeApiKey, NoticeNothingNew}

\* C21: every invocation of the generate command and of the export command
\* ends having shown a notice (a confirmation, a 'nothing to do' notice or a
\* failure notice), and an invocation whose input is absent (no active PDF,
\* no API key, no new flashcard highlight) shows a notice and leaves the
\* stored files as they were.
C21_CommandsEndWithNotice ==
    /\ genEvt.kind = "generate" =>
          /\ Len(genEvt.notices) = 1
          /\ genEvt.notices[1] \in AbsentInputNotices =>
                /\ genEvt.writes = 0
                /\ genEvt.cards1 = genEvt.cards0
                /\ genEvt.hl1 = genEvt.hl0
    /\ expEvt.kind = "export" =>
          /\ Len(expEvt.notices) >= 1
          /\ ~expEvt.hasFile => expFile = expEvt.note0

\* ------------------------------------------------------------ the review session
\* C22: a click on the card flips the session's reveal flag and changes
\* nothing else: the card list, the index, the current card, the progress
\* cache and the stored progress document stay as they were, and no write is
\* issued.
C22_ToggleChangesOnlyReveal ==
    [][evt'.kind = "toggled" =>
          /\ showingAnswer' = ~showingAnswer
          /\ viewCards' = viewCards
          /\ viewIndex' = viewIndex
          /\ SessionCurrent' = SessionCurrent
          /\ SessionProgress' = SessionProgress
          /\ progressCache' = progressCache
          /\ heap' = heap
          /\ progressFile' = progressFile
          /\ cardsFile' = cardsFile
          /\ inflight' = inflight
          /\ tasks' = tasks]_vars

\* the answer of the second of two remaining cards is revealed, with a
\* grade of the first card in the progress map
C22_Witness ==
    /\ evt.kind = "toggled"
    /\ showingAnswer
    /\ Len(SessionRemaining) = 2
    /\ viewIndex = 1
    /\ SessionProgress # EmptyMap

\* the streak of card c in progress map m, 0 when it has no entry
StreakIn(m, c) == IF c \in DOMAIN m THEN m[c].streak ELSE 0

\* the handleGrade that ended last graded the card that was current when it
\* was called, changed the entry of that card as the scheduler does and no
\* other entry, and left the index one past the old one, modulo the number
\* of cards remaining after the grade
GradedAsCalled ==
    evt.kind = "graded" =>
        LET n == Len(evt.remBefore)
            after == evt.loaded[1]
        IN  /\ n > 0
            /\ evt.card = evt.remBefore[(evt.idxBefore % n) + 1].id
            /\ evt.card \in DOMAIN after
            /\ after[evt.card].done = Some(evt.isGood)
            /\ after[evt.card].streak =
                  (IF evt.isGood THEN StreakIn(evt.prior, evt.card) + 1 ELSE 0)
            /\ \A c \in (DOMAIN after \cup DOMAIN evt.prior) \ {evt.card} :
                  Lookup(after, c) = Lookup(evt.prior, c)
            /\ SessionProgress = after
            /\ viewIndex = (IF Len(SessionRemaining) > 0
                            THEN (evt.idxBefore + 1) % Len(SessionRemaining) ELSE 0)
            /\ ~showingAnswer

\* C23: handleGrade on a session with a current card applies the scheduler
\* to exactly that card and to no other, then sets the index to (index+1)
\* mod the number of cards remaining after the grade (0 when none remain)
\* and hides the answer; no step of a handleGrade changes the session's
\* card list, and with no current card no grade is begun.
C23_HandleGrade ==
    /\ []GradedAsCalled
    /\ [][/\ (Grading(tasks) # {} \/ Grading(tasks') # {}) => viewCards' = viewCards
          /\ SessionCurrent = None => Grading(tasks') \subseteq Grading(tasks)]_vars

\* the second of two remaining cards is graded again, the first having an
\* entry: the index wraps to 0 and the first card is current
C23_Witness ==
    /\ evt.kind = "graded"
    /\ ~evt.isGood
    /\ Len(evt.remBefore) = 2
    /\ evt.idxBefore = 1
    /\ evt.card = evt.remBefore[2].id
    /\ evt.prior # EmptyMap
    /\ viewIndex = 0
    /\ SessionCurrent = Some(viewCards[1])

\* no handler is pending and no write is in flight
Quiet == (\A t \in Slots : Idle(t)) /\ inflight = {}

\* C24: whenever no handler is pending, every key of the progress map is the
\* id of a card of the stored flashcard set, also after a review session
\* that loaded its card list before a card was deleted in the manager has
\* gone on grading from that list.
C24_ProgressKeysAreCards ==
    Quiet => DOMAIN CurrentProgress \subseteq Ids(StoredCards)

\* ------------------------------------------------------------ generation, again
\* the ids of a list of ids
IdSet(ids) == { ids[i] : i \in 1..Len(ids) }

\* the generate command that ended last: when it added cards, its input
\* highlights are marked in the highlight file it wrote; when it found no
\* new flashcard highlight, it showed the 'nothing to do' notice and issued
\* no write, so added no card
GenerationEnded ==
    genEvt.kind = "generate" =>
        /\ genEvt.notices = << NoticeGenerated >> =>
              /\ genEvt.inputs # << >>
              /\ IdSet(genEvt.inputs) \subseteq GeneratedIds(genEvt.hl1)
        /\ genEvt.notices = << NoticeNothingNew >> =>
              /\ genEvt.writes = 0
              /\ genEvt.inputs = << >>

\* the addCards of the generate command of slot t completes in this step
CardsAdded(t) == genTasks[t].pc = "addWrite" /\ genTasks'[t].pc = "markRead"

\* C25: each flashcard highlight is the input of at most one generation
\* that adds cards (when the addCards of a generation completes, none of its
\* input highlights has been the input of a generation that added cards
\* before); a generation that added cards ends with its input highlights
\* marked flashcardGenerated, and a generate command that finds no new
\* flashcard highlight reports 'nothing to do' and adds no card - also when
\* generate commands are started before an earlier one has finished.
C25_OneGenerationPerHighlight ==
    /\ []GenerationEnded
    /\ [][\A t \in Slots :
            CardsAdded(t) => IdSet(genTasks[t].inputs) \cap hlMarked = {}]_vars

\* the handleGrade of slot t applies the scheduler in this step (line 786
\* of its updateProgressOptimistic)
Applies(t) == tasks[t].op = "upsert" /\ tasks'[t].op = "loadProgress"

\* C26: a displayed card receives at most one grade per display: a
\* handleGrade called while an earlier handleGrade is pending (a second
\* click on the same display) does not apply the scheduler to the card of
\* the pending one, and does not advance the index again; the streak of a
\* graded card is at most one above its streak when the handler was called.
C26_OneGradePerDisplay ==
    /\ [][\A t \in Slots : Applies(t) => tasks[t].card \notin tasks[t].along]_vars
    /\ [](evt.kind = "graded" =>
            /\ evt.along # {} => viewIndex = evt.idxBefore
            /\ StreakIn(evt.loaded[1], evt.card) <= StreakIn(evt.prior, evt.card) + 1)

\* C27: once every issued progress write has completed and no handler is
\* pending, the stored progress document holds the progress map of the
\* in-memory cache: no write of an upsert, of resetProgress, of
\* removeProgress or of pruneProgress leaves an older snapshot as the stored
\* content.
C27_StoredEqualsCacheAtRest ==
    (Quiet /\ progressCache # NoObj) => StoredProgress = CurrentProgress

\* the list without the cards of id c
Without(cards, c) == SelectSeq(cards, LAMBDA card : card.id # c)

\* C28: a good grade of the current card of a session with n >= 1 remaining
\* cards leaves the remaining cards less that card, n - 1 of them, and the
\* session shows the finished screen exactly when n was 1 and a card
\* otherwise; so grading good one card at a time finishes the session after
\* exactly n grades.
C28_GoodGradesFinish ==
    (evt.kind = "graded" /\ evt.isGood) =>
        /\ Len(evt.remBefore) >= 1
        /\ SessionRemaining = Without(evt.remBefore, evt.card)
        /\ Len(SessionRemaining) = Len(evt.remBefore) - 1
        /\ display.screen = (IF Len(evt.remBefore) = 1 THEN "finished" ELSE "card")

\* a session of two cards and no progress is finished by two good grades
C28_Witness ==
    /\ evt.kind = "graded"
    /\ evt.isGood
    /\ Len(viewCards) = 2
    /\ clock = 2
    /\ \E c \in Ids(viewCards) \ {evt.card} :
          DOMAIN evt.prior = {c} /\ IsDone(evt.prior, c)
    /\ Len(evt.remBefore) = 1
    /\ SessionRemaining = << >>
    /\ display.screen = "finished"

\* ------------------------------------------------------------ SpecAttach
\* One PdfLeafController: ensureAttached called by init and by
\* maybeAttachToPdfLeaf (lines 672-685) while the viewer element of the leaf
\* is mounted, or replaced, at any moment.  ensureAttached has no await: each
\* attempt runs to its end in one turn of the event loop.

\* Largest number of calls of ensureAttached from outside (init, then
\* maybeAttachToPdfLeaf on a change of leaf or layout).
MaxAttachCalls == 3

\* Largest number of viewer elements mounted in the leaf, one after the other.
MaxViewers == 2

\* Largest number of timers set by scheduleRenderHighlights.
MaxRenderTimers == 4

\* line 337: ensureAttached(retries = 5)
DefaultRetries == 5

\* line 351
RetryDelay == 250

\* line 511
RenderDelay == 150

\* line 348
CanRetry(retries) == retries > 0

\* line 508: if (this.renderTimer) window.clearTimeout(this.renderTimer)
NotCleared(pending, timer) == pending

ClearTimeout(pending, timer) == { tm \in pending : tm.id # timer }

\* lines 349-351: the timer that calls ensureAttached(retries - 1)
RetryTimer(chain, retries) == [chain |-> chain, retries |-> retries - 1, delay |-> RetryDelay]

\* lines 509-511
RenderTimer(id) == [id |-> id, delay |-> RenderDelay]

\* a MutationObserver that is observing `target`
Observer(id, target) == [id |-> id, target |-> target]

\* history of one chain of attempts
NewChain == [retries |-> 0, found |-> 0]

ChainOf(chains, chain) == IF chain \in DOMAIN chains THEN chains[chain] ELSE NewChain

attRest == << schedVars, rdVars, genVars, geoVars, expVars, mainVars >>

InitAttach ==
    /\ InitMain
    /\ SchedIdle
    /\ RdIdle
    /\ GenIdle
    /\ GeoIdle
    /\ ExpIdle
    /\ AttIdle

\* scheduleRenderHighlights (lines 507-512)
scheduleRenderHighlights(next) ==
    /\ atRenders' = ClearTimeout(atRenders, atRenderTimer) \cup {RenderTimer(next.timer)}
    /\ atRenderTimer' = next.timer

\* ensureAttached(retries) (lines 337-382) as an attempt of `chain`;
\* `timers` are the retry timers left pending and `next` the fresh
\* identities when it is called
ensureAttached(chain, retries, timers, next) ==
    LET found == atViewer # 0
        stale == atObserver # 0 /\ atAttached # atViewer
        observer1 == IF stale THEN 0 ELSE atObserver
        live1 == IF stale THEN { o \in atLive : o.id # atObserver } ELSE atLive
        create == observer1 = 0
        before == ChainOf(atChains, chain)
    IN  /\ atToolbar' = TRUE
        /\ IF ~found
           THEN /\ atRetry' = IF CanRetry(retries)
                              THEN timers \cup {RetryTimer(chain, retries)} ELSE timers
                /\ atNext' = next
                /\ atChains' = Put(atChains, chain,
                                   [before EXCEPT !.retries =
                                       IF CanRetry(retries) THEN @ + 1 ELSE @])
                /\ UNCHANGED << atSelHandler, atObserver, atAttached, atLive,
                                atRenderTimer, atRenders >>
           ELSE /\ atRetry' = timers
                /\ atSelHandler' = TRUE
                /\ atObserver' = IF create THEN next.observer ELSE observer1
                /\ atAttached' = IF create THEN atViewer ELSE atAttached
                /\ atLive' = IF create THEN live1 \cup {Observer(next.observer, atViewer)}
                             ELSE live1
                /\ scheduleRenderHighlights(next)
                /\ atNext' = [next EXCEPT !.timer = @ + 1,
                                          !.observer = IF create THEN @ + 1 ELSE @]
                /\ atChains' = Put(atChains, chain, [before EXCEPT !.found = @ + 1])
        /\ atEvt' = [kind |-> "attempt", chain |-> chain, retries |-> retries,
                     found |-> found]
        /\ UNCHANGED atViewer

\* init (line 328) or maybeAttachToPdfLeaf (line 678) calls ensureAttached()
AttachCall ==
    /\ atNext.chain <= MaxAttachCalls
    /\ atViewer # 0 => atNext.timer <= MaxRenderTimers
    /\ ensureAttached(atNext.chain, DefaultRetries, atRetry,
                      [atNext EXCEPT !.chain = @ + 1])
    /\ UNCHANGED attRest

\* a timer of line 349 fires (line 350)
RetryFires ==
    /\ atViewer # 0 => atNext.timer <= MaxRenderTimers
    /\ \E tm \in atRetry : ensureAttached(tm.chain, tm.retries, atRetry \ {tm}, atNext)
    /\ UNCHANGED attRest

\* the PDF view mounts its viewer element, or replaces it by another
ViewerMounts ==
    /\ atViewer < MaxViewers
    /\ atViewer' = atViewer + 1
    /\ atEvt' = [NoAttEvt EXCEPT !.kind = "mounted"]
    /\ UNCHANGED << atToolbar, atSelHandler, atObserver, atAttached, atLive, atRetry,
                    atRenderTimer, atRenders, atNext, atChains, attRest >>

\* the callback of an observer that is observing (lines 374-376)
ObserverFires ==
    /\ atNext.timer <= MaxRenderTimers
    /\ atLive # {}
    /\ scheduleRenderHighlights(atNext)
    /\ atNext' = [atNext EXCEPT !.timer = @ + 1]
    /\ atEvt' = [NoAttEvt EXCEPT !.kind = "mutation"]
    /\ UNCHANGED << atViewer, atToolbar, atSelHandler, atObserver, atAttached, atLive,
                    atRetry, atChains, attRest >>

\* a timer of line 509 fires (line 510); renderHighlights writes no field
RenderFires ==
    /\ \E tm \in atRenders : atRenders' = atRenders \ {tm}
    /\ atEvt' = [NoAttEvt EXCEPT !.kind = "render"]
    /\ UNCHANGED << atViewer, atToolbar, atSelHandler, atObserver, atAttached, atLive,
                    atRetry, atRenderTimer, atNext, atChains, attRest >>

NextAttach == AttachCall \/ RetryFires \/ ViewerMounts \/ ObserverFires \/ RenderFires

SpecAttach == InitAttach /\ [][NextAttach]_vars

\* the pending retry timers of a chain
RetriesPending(chain) == { tm \in atRetry : tm.chain = chain }

\* C29: a chain of ensureAttached attempts schedules at most 5 retries, each
\* at the same delay, and after the attempt with no retry left it schedules
\* none; a chain schedules no retry once an attempt has found the viewer, and
\* makes no further attempt; the attempt that finds the viewer leaves one
\* observer observing that viewer and a render timer pending; at any time at
\* most one observer is observing and at most one render timer is pending.
C29_BoundedRetrySingleObserver ==
    /\ \A chain \in DOMAIN atChains :
          /\ atChains[chain].retries <= 5
          /\ atChains[chain].found <= 1
          /\ Cardinality(RetriesPending(chain)) <= 1
          /\ atChains[chain].found = 1 => RetriesPending(chain) = {}
    /\ \A tm \in atRetry : tm.delay = 250 /\ tm.retries >= 0
    /\ (atEvt.kind = "attempt" /\ ~atEvt.found /\ atEvt.retries = 0) =>
          RetriesPending(atEvt.chain) = {}
    /\ (atEvt.kind = "attempt" /\ atEvt.found) =>
          /\ atLive = {Observer(atObserver, atViewer)}
          /\ atAttached = atViewer
          /\ atRenders = {RenderTimer(atRenderTimer)}
    /\ Cardinality(atLive) <= 1
    /\ Cardinality(atRenders) <= 1

\* the first chain has given up after 5 retries; the second, begun before
\* the viewer was mounted, has found it on a retry; the viewer has then
\* been replaced and the attempt of a third call has moved the observer to
\* the new one
C29_Witness ==
    /\ DOMAIN atChains = {1, 2, 3}
    /\ atChains[1] = [retries |-> 5, found |-> 0]
    /\ RetriesPending(1) = {}
    /\ atChains[2].retries >= 1
    /\ atChains[2].found = 1
    /\ atChains[3] = [retries |-> 0, found |-> 1]
    /\ atEvt = [kind |-> "attempt", chain |-> 3, retries |-> 5, found |-> TRUE]
    /\ atViewer = 2
    /\ atLive = {Observer(2, 2)}
    /\ Cardinality(atRenders) = 1

====
